---- MODULE Spec2Model ----
(***************************************************************************)
(* The domain-resolution pipeline of the NXDOMAIN'd background script:     *)
(* admission (ensureEnqueued), the drain (processQueue), the two-tier      *)
(* check (checkRegistrable: rdapFetch, then dnsFallback/doh), the verdict  *)
(* write (propagateStatus) and the control messages that touch the queue.  *)
(*                                                                         *)
(* JavaScript runs every handler and every promise continuation to its     *)
(* next await without interleaving, so one action is one handler run or    *)
(* one continuation run, up to the point where it waits for the network.   *)
(***************************************************************************)
EXTENDS Integers, Sequences, FiniteSets, TLC

(* ---- bounds of the model ---- *)
(* last clock value of Spec and SpecDrain *)
MaxTime == 3

(* last clock value of SpecSoft *)
MaxTimeSoft == 5

(* zero-delay drain timers that may be pending at once *)
MaxTimers == 1

(* last clock value of SpecEvidence *)
MaxTimeEvidence == 2

(* storage.set calls that may be in flight at once *)
MaxWrites == 2

(* persist timers that may be pending at once *)
MaxPersistTimers == 2

(* last clock value of SpecTabs and SpecPage *)
MaxTimeTabs == 3

(* last clock value of SpecDedup *)
MaxTimeDedup == 5

(* last clock value of SpecEvict *)
MaxTimeEvict == 3

(* Program constants, scaled.  One clock unit stands for one throttle      *)
(* window (10 s); the soft TTL of 15 min is scaled to 2 units and the      *)
(* ceiling of 10 concurrent checks to 2, so that three domains reach it.   *)
(* The order ENQUEUE_TTL_MS < DNS_REGISTERED_SOFT_TTL_MS of the source is  *)
(* kept.                                                                   *)
MAX_CONCURRENCY == 2
ENQUEUE_TTL_MS == 1
DNS_REGISTERED_SOFT_TTL_MS == 2

(* The evidence caps of 200 URLs per list, scaled to 2 so that a third URL *)
(* overflows a list.                                                       *)
MAX_PAGES_PER_DOMAIN == 2
MAX_REQS_PER_DOMAIN == 2

(* The tab and frame histories keep 10 URLs for 10 min, scaled to 2 URLs   *)
(* for 1 clock unit.                                                       *)
TAB_HISTORY_MAX == 2
TAB_HISTORY_TTL_MS == 1

(* The dedup window of 1.5 s is within one clock unit and is scaled to it; *)
(* the GC window of 30 s is three units.  The order REQ_TTL_MS <           *)
(* REQ_GC_WINDOW_MS of the source is kept.                                 *)
REQ_TTL_MS == 1
REQ_GC_WINDOW_MS == 3

(* The ceilings of 1,000,000 records and 1,000,000 hosts, scaled to 2 so   *)
(* that a third domain and a third host exceed them.                       *)
MAX_DOMAINS == 2
MAX_HOSTS == 2

AllDomains == {"a.test", "b.test", "c.test"}
(* the domains that the maps of the model have a place for: one more than *)
(* AllDomains, for the queue of SpecFifo                                  *)
KnownDomains == AllDomains \cup {"d.test"}
(* the domains of Spec *)
Domains == {"a.test", "b.test"}

(* the domain of SpecSoft *)
SoftDomains == {"a.test"}

(* the domain of SpecEvidence *)
EvidenceDomains == {"a.test"}

(* the domain of SpecPersist *)
PersistDomains == {"a.test"}

(* the page and request URLs of SpecEvidence; NoUrl is a null or empty URL *)
Urls == {"u1", "u2", "u3"}
NoUrl == ""
(* the URL that SpecEvidence also requests without page context *)
SubframeUrl == "u1"
(* the request URLs of SpecPersist, the request URL of LiveRestart *)
PersistUrls == {"u1", "u2"}
RestartUrl == "u1"

AggregatorUrl == "https://rdap.org/"
RegistryUrl == "https://rdap.registry.example/"

(* What fetch() hands back to rdapFetch's attempt(): r.ok, r.status, r.url *)
Http200 == [ok |-> TRUE,  status |-> 200, finalUrl |-> RegistryUrl]

HttpResponses ==
  { Http200,
    [ok |-> FALSE, status |-> 404, finalUrl |-> RegistryUrl],
    [ok |-> FALSE, status |-> 404, finalUrl |-> AggregatorUrl],
    [ok |-> FALSE, status |-> 500, finalUrl |-> RegistryUrl] }

(* The DoH JSON answers: Status (rcode), number of Answer records, whether *)
(* the Authority section holds an SOA (type 6) record.                     *)
DohJson == [Status : {0, 2, 3}, Answer : {0, 1}, SOA : BOOLEAN]

VARIABLES
  clock,            \* Date.now()
  domainStatus,     \* registrable domain -> DomainInfo
  availableList,    \* the findings, in insertion order
  hasNew,           \* the new-finding flag
  queue,            \* queue: string[]
  queued,           \* queued: Set<string>
  active,           \* active: Set<string>
  inflight,         \* inflight counter
  inflightByDomain, \* the keys of the inflightByDomain map
  lastQueued,       \* throttle map: domain -> time of admission
  itemToHost,       \* origin-host map
  attempts,         \* domain -> the resolutions of it that wait for the network
  drainTimers,      \* pending setTimeout(processQueue, 0) callbacks
  contexts,         \* domain -> the pages and requests lists of its record
  findingContexts,  \* domain -> the pages and requests lists of its finding
  sharedRefs,       \* the arrays and PageRef objects that a record and the
                    \* finding of its domain both refer to
  hostSeen,         \* the hosts that have an entry in hostSeen
  dirty,            \* the keys whose dirty flag is set
  persistTimers,    \* pending setTimeout(triggerPersist, ...) callbacks
  persistTimer,     \* persistTimer is not null: it refers to a pending timer
  persistScheduled,
  persistInFlight,
  persistPending,
  writes,           \* the storage.set calls that have not completed, in order
  stored,           \* what storage.local holds
  initLoading,      \* init() awaits storage.get
  clearedFindings,  \* history: domains whose finding clearAvailable removed,
                    \* with no clearCache since
  tabTopUrl,        \* tab id -> last known top-level URL
  tabHistory,       \* tab id -> the URLs of the tab, oldest first
  frameHistory,     \* `${tabId}:${frameId}` -> the URLs of the frame
  seenRequestIds,   \* requestId -> the time of the event that was let in
  recordTs,         \* the ts of the records, as the entries [key, ts] of
                    \* domainStatus in the order of Object.keys
  hostSeenTs        \* the entries [key, ts] of hostSeen in the same order

(* the state of the pipeline and the state of persistence *)
pipelineVars ==
  << clock, domainStatus, availableList, hasNew, queue, queued, active,
     inflight, inflightByDomain, lastQueued, itemToHost, attempts,
     drainTimers, contexts, findingContexts, sharedRefs >>

persistVars ==
  << hostSeen, dirty, persistTimers, persistTimer, persistScheduled,
     persistInFlight, persistPending, writes, stored, initLoading >>

(* what happened before, for the properties that speak of it *)
historyVars == << clearedFindings >>

(* the state of the context tracker *)
trackerVars == << tabTopUrl, tabHistory, frameHistory >>

(* what the handlers of the pipeline and of persistence leave alone *)
dedupVars == << seenRequestIds >>
evictVars == << recordTs, hostSeenTs >>
restVars == << historyVars, trackerVars, dedupVars, evictVars >>

vars == << pipelineVars, persistVars, restVars >>

(* ---- JavaScript objects and Maps as partial functions ---- *)
Put(m, k, v) == [x \in (DOMAIN m) \cup {k} |-> IF x = k THEN v ELSE m[x]]
Del(m, k) == [x \in (DOMAIN m) \ {k} |-> m[x]]
Has(m, k) == k \in DOMAIN m
EmptyMap == << >>

(* The ts of the entries of an object, as the sequence of [key, ts] in the *)
(* order of Object.keys: obj[key] = ... keeps the place of a key that is   *)
(* there and puts a new key last; delete obj[key] takes the key out.       *)
KeyIndex(seq, k) ==
  IF \E i \in 1..Len(seq) : seq[i].key = k
  THEN CHOOSE i \in 1..Len(seq) : seq[i].key = k
  ELSE 0

setTs(seq, k, t) ==
  IF KeyIndex(seq, k) > 0
  THEN [seq EXCEPT ![KeyIndex(seq, k)].ts = t]
  ELSE Append(seq, [key |-> k, ts |-> t])

delTs(seq, ks) == SelectSeq(seq, LAMBDA e : e.key \notin ks)

TsKeys(seq) == {seq[i].key : i \in 1..Len(seq)}
Elems(s) == {s[i] : i \in 1..Len(s)}
RemoveAt(s, i) == [j \in 1..(Len(s) - 1) |-> IF j < i THEN s[j] ELSE s[j + 1]]
Max(a, b) == IF a >= b THEN a ELSE b

(* The program state as one value, threaded through the handlers.  calls   *)
(* and applied are outputs of a handler run, not state: the outbound       *)
(* queries it issued and the propagateStatus calls it made.  now and       *)
(* recent are what the handler reads from the clocks: Date.now(), and      *)
(* whether performance.now() is within 500 ms of the last persist request. *)
S ==
  [ now |-> clock, domainStatus |-> domainStatus, availableList |-> availableList,
    hasNew |-> hasNew, queue |-> queue, queued |-> queued, active |-> active,
    inflight |-> inflight, inflightByDomain |-> inflightByDomain,
    lastQueued |-> lastQueued, itemToHost |-> itemToHost, attempts |-> attempts,
    drainTimers |-> drainTimers, contexts |-> contexts,
    findingContexts |-> findingContexts, sharedRefs |-> sharedRefs,
    hostSeen |-> hostSeen, dirty |-> dirty, persistTimers |-> persistTimers,
    persistTimer |-> persistTimer, persistScheduled |-> persistScheduled,
    persistInFlight |-> persistInFlight, persistPending |-> persistPending,
    writes |-> writes, stored |-> stored, initLoading |-> initLoading,
    tabTopUrl |-> tabTopUrl, tabHistory |-> tabHistory,
    frameHistory |-> frameHistory, seenRequestIds |-> seenRequestIds,
    recordTs |-> recordTs, hostSeenTs |-> hostSeenTs,
    recent |-> FALSE, calls |-> << >>, applied |-> << >> ]

(* The state a handler returns becomes the next state.  The handler is     *)
(* run once: its result is bound before it is read field by field.         *)
CommitPipeline(result) ==
  \E st \in {result} :
    /\ st.drainTimers <= MaxTimers
    /\ domainStatus' = st.domainStatus
    /\ availableList' = st.availableList
    /\ hasNew' = st.hasNew
    /\ queue' = st.queue
    /\ queued' = st.queued
    /\ active' = st.active
    /\ inflight' = st.inflight
    /\ inflightByDomain' = st.inflightByDomain
    /\ lastQueued' = st.lastQueued
    /\ itemToHost' = st.itemToHost
    /\ attempts' = st.attempts
    /\ drainTimers' = st.drainTimers
    /\ contexts' = st.contexts
    /\ findingContexts' = st.findingContexts
    /\ sharedRefs' = st.sharedRefs
    /\ UNCHANGED clock

(* Persistence does not act on the pipeline: prune, the one part of it     *)
(* that writes to the pipeline's state, drops throttle entries that are    *)
(* out of their window and clamps evidence lists.  The specifications of   *)
(* the pipeline therefore leave the state of persistence out: their        *)
(* actions commit the pipeline's part of what a handler did.               *)
Commit(st) ==
  /\ CommitPipeline(st)
  /\ UNCHANGED persistVars
  /\ UNCHANGED restVars

(* The specifications of persistence commit all of it. *)
CommitAll(result) ==
  \E st \in {result} :
    /\ CommitPipeline(st)
    /\ Len(st.writes) <= MaxWrites
    /\ st.persistTimers <= MaxPersistTimers
    /\ hostSeen' = st.hostSeen
    /\ dirty' = st.dirty
    /\ persistTimers' = st.persistTimers
    /\ persistTimer' = st.persistTimer
    /\ persistScheduled' = st.persistScheduled
    /\ persistInFlight' = st.persistInFlight
    /\ persistPending' = st.persistPending
    /\ writes' = st.writes
    /\ stored' = st.stored
    /\ initLoading' = st.initLoading
    /\ UNCHANGED restVars

PendingInfo == [status |-> "pending", method |-> "null", http |-> 0, url |-> ""]

(* pages: [], requests: [] *)
NoContexts == [pages |-> << >>, requests |-> << >>]
NoSharedRefs == [arrays |-> {}, items |-> {}]

Init ==
  /\ clock = 1
  /\ domainStatus = EmptyMap
  /\ availableList = << >>
  /\ hasNew = FALSE
  /\ queue = << >>
  /\ queued = {}
  /\ active = {}
  /\ inflight = 0
  /\ inflightByDomain = {}
  /\ lastQueued = EmptyMap
  /\ itemToHost = EmptyMap
  /\ attempts = [d \in KnownDomains |-> << >>]
  /\ drainTimers = 0
  /\ contexts = [d \in KnownDomains |-> NoContexts]
  /\ findingContexts = [d \in KnownDomains |-> NoContexts]
  /\ sharedRefs = NoSharedRefs
  /\ hostSeen = {}
  /\ dirty = {}
  /\ persistTimers = 0
  /\ persistTimer = FALSE
  /\ persistScheduled = FALSE
  /\ persistInFlight = FALSE
  /\ persistPending = FALSE
  /\ writes = << >>
  /\ stored = EmptyMap
  /\ initLoading = FALSE
  /\ clearedFindings = {}
  /\ tabTopUrl = EmptyMap
  /\ tabHistory = EmptyMap
  /\ frameHistory = EmptyMap
  /\ seenRequestIds = EmptyMap
  /\ recordTs = << >>
  /\ hostSeenTs = << >>

(* ---- persistence: the dirty flags, the debounce, the writes ---- *)
setDirty(st, key) == [st EXCEPT !.dirty = @ \cup {key}]

(* persistSoon.  clearTimeout cancels the timer persistTimer refers to.   *)
persistSoon(st) ==
  IF st.recent /\ st.persistScheduled
  THEN st
  ELSE [st EXCEPT !.persistTimers = IF st.persistTimer THEN @ ELSE @ + 1,
                  !.persistTimer = TRUE,
                  !.persistScheduled = TRUE]

(* the values that storage.set serialises, by key *)
StoredValue(st, key) ==
  IF key = "domainStatus"
  THEN [records |-> st.domainStatus, contexts |-> st.contexts,
        ts |-> st.recordTs]
  ELSE IF key = "availableList"
  THEN [list |-> st.availableList, contexts |-> st.findingContexts]
  ELSE IF key = "tabTopUrl"
  THEN st.tabTopUrl
  ELSE [hosts |-> st.hostSeen, ts |-> st.hostSeenTs]

Payload(st, keys) == [k \in keys |-> StoredValue(st, k)]

(* storage.set(payload) is called; `then` names what awaits its completion *)
storageSet(st, keys, then) ==
  [st EXCEPT !.writes = Append(@, [payload |-> Payload(st, keys), then |-> then])]

(* storage.local after a set of payload *)
Override(m, payload) ==
  [k \in (DOMAIN m) \cup (DOMAIN payload) |->
     IF k \in DOMAIN payload THEN payload[k] ELSE m[k]]

(* ---- the context tracker: tab and frame histories ---- *)
(* A URL is what new URL(url) reads of it: its origin and the rest         *)
(* (pathname, search and hash), "/" for a URL that is an origin only.      *)
(* NoPage stands for an undefined, null or empty URL.                      *)
NoPage == [origin |-> "", path |-> ""]

Digit(k) == << "0", "1", "2", "3", "4", "5", "6", "7", "8", "9" >>[k + 1]

(* String(n) for a tab or frame id: the decimal digits *)
RECURSIVE DecimalString(_)
DecimalString(n) ==
  IF n < 10 THEN << Digit(n) >>
  ELSE DecimalString(n \div 10) \o << Digit(n % 10) >>

(* `${tabId}:${frameId}` *)
frameKey(tabId, frameId) ==
  DecimalString(tabId) \o << ":" >> \o DecimalString(frameId)

startsWithDigits(k, prefix) ==
  Len(k) >= Len(prefix) - 1 /\ SubSeq(k, 1, Len(prefix) - 1) = SubSeq(prefix, 1, Len(prefix) - 1)

(* k.startsWith(prefix) *)
startsWith(k, prefix) ==
  Len(k) >= Len(prefix) /\ SubSeq(k, 1, Len(prefix)) = prefix

(* while (arr.length && arr[0].ts < cutoff) arr.shift() *)
RECURSIVE shiftExpired(_, _)
shiftExpired(arr, cutoff) ==
  IF arr # << >> /\ Head(arr).ts < cutoff
  THEN shiftExpired(Tail(arr), cutoff)
  ELSE arr

RECURSIVE popOver(_)
popOver(arr) ==
  IF Len(arr) > TAB_HISTORY_MAX THEN popOver(SubSeq(arr, 1, Len(arr) - 1)) ELSE arr

(* while (arr.length > TAB_HISTORY_MAX) arr.shift() *)
RECURSIVE shiftOver(_)
shiftOver(arr) ==
  IF Len(arr) > TAB_HISTORY_MAX THEN shiftOver(Tail(arr)) ELSE arr

(* arr.push({ url, ts: t }) and the two prunes, by size and by TTL *)
pushHistory(arr, url, t) ==
  shiftExpired(shiftOver(Append(arr, [url |-> url, ts |-> t])),
               t - TAB_HISTORY_TTL_MS)

HistoryOf(m, k) == IF Has(m, k) THEN m[k] ELSE << >>

recordTabTop(st, tabId, url) ==
  IF tabId < 0 THEN st
  ELSE [setDirty(st, "tabTopUrl") EXCEPT
          !.tabTopUrl = Put(@, tabId, url),
          !.tabHistory = Put(@, tabId, pushHistory(HistoryOf(@, tabId), url, st.now))]

recordFrameUrl(st, tabId, frameId, url) ==
  IF tabId < 0 \/ frameId < 0 THEN st
  ELSE LET key == frameKey(tabId, frameId)
       IN [st EXCEPT
             !.frameHistory = Put(@, key, pushHistory(HistoryOf(@, key), url, st.now))]

(* the webNavigation listeners (onCommitted, onHistoryStateUpdated,        *)
(* onReferenceFragmentUpdated) for an http(s) URL                          *)
webNavigationHandler(st, tabId, frameId, url) ==
  IF tabId >= 0 /\ url # NoPage
  THEN LET s1 == recordFrameUrl(st, tabId, frameId, url)
           s2 == IF frameId = 0 THEN recordTabTop(s1, tabId, url) ELSE s1
       IN persistSoon(s2)
  ELSE st

(* the tabs.onUpdated listener for an http(s) changeInfo.url *)
tabsOnUpdatedHandler(st, tabId, url) ==
  IF url # NoPage THEN persistSoon(recordTabTop(st, tabId, url)) ELSE st

(* the tabs.onRemoved listener *)
tabsOnRemovedHandler(st, tabId) ==
  persistSoon(
    [setDirty(st, "tabTopUrl") EXCEPT
       !.tabTopUrl = Del(@, tabId),
       !.frameHistory =
          [k \in {x \in DOMAIN @ :
                    ~startsWith(x, DecimalString(tabId) \o << ":" >>)} |-> @[k]],
       !.tabHistory = Del(@, tabId)])

(* An id that is a number of a tab or frame.  NoId stands for an id that   *)
(* is undefined and for the -1 of an event outside any tab: nothing is     *)
(* recorded under either, so every lookup under it comes back empty.       *)
NoId == 0 - 1
IsNumber(id) == id >= 0

(* lookupTabHistory and lookupFrameHistory on the array found: the newest  *)
(* entry of the origin asked for, else (or with no origin given) the       *)
(* newest entry.  NoOrigin is an origin not given.                         *)
NoOrigin == ""

lookupHistory(arr, origin) ==
  IF arr = << >> THEN NoPage
  ELSE IF origin # NoOrigin /\ \E i \in 1..Len(arr) : arr[i].url.origin = origin
  THEN arr[CHOOSE i \in 1..Len(arr) :
             /\ arr[i].url.origin = origin
             /\ \A j \in (i + 1)..Len(arr) : arr[j].url.origin # origin].url
  ELSE arr[Len(arr)].url

lookupTabHistory(st, tabId, origin) ==
  IF IsNumber(tabId)
  THEN lookupHistory(HistoryOf(st.tabHistory, tabId), origin)
  ELSE NoPage

lookupFrameHistory(st, tabId, frameId, origin) ==
  IF IsNumber(tabId) /\ IsNumber(frameId)
  THEN lookupHistory(HistoryOf(st.frameHistory, frameKey(tabId, frameId)), origin)
  ELSE NoPage

Page(url, source) == [url |-> url, source |-> source]

pageCandidateOriginFirst(st, details, tabId, frameId) ==
  LET fh == lookupFrameHistory(st, tabId, frameId, NoOrigin)
  IN IF fh # NoPage THEN Page(fh, "frameHistory")
     ELSE IF details.originUrl # NoPage THEN Page(details.originUrl, "originUrl")
     ELSE IF details.documentUrl # NoPage THEN Page(details.documentUrl, "documentUrl")
     ELSE IF details.initiator # NoPage THEN Page(details.initiator, "initiator")
     ELSE IF IsNumber(tabId) /\ Has(st.tabTopUrl, tabId)
     THEN Page(st.tabTopUrl[tabId], "tabTopUrl")
     ELSE Page(NoPage, "none")

(* pageFromVerbose up to the upgrade: frame history first, then the        *)
(* fields of the event, then the top-level URL of the tab                  *)
pageCandidate(st, details, tabId, frameId) ==
  LET fh == lookupFrameHistory(st, tabId, frameId, NoOrigin)
  IN IF fh # NoPage THEN Page(fh, "frameHistory")
     ELSE IF details.documentUrl # NoPage THEN Page(details.documentUrl, "documentUrl")
     ELSE IF details.originUrl # NoPage THEN Page(details.originUrl, "originUrl")
     ELSE IF details.initiator # NoPage THEN Page(details.initiator, "initiator")
     ELSE IF IsNumber(tabId) /\ Has(st.tabTopUrl, tabId)
     THEN Page(st.tabTopUrl[tabId], "tabTopUrl")
     ELSE Page(NoPage, "none")

(* pathname === '/' && !search && !hash *)
onlyOrigin(url) == url # NoPage /\ url.path = "/"

(* pageFromVerbose: the candidate, the tab history when there is none, the *)
(* upgrade of a candidate that is an origin only                           *)
pageFromVerbose(st, details, tabId, frameId) ==
  LET c == pageCandidate(st, details, tabId, frameId)
  IN IF ~IsNumber(tabId) THEN c
     ELSE IF c.url = NoPage
     THEN LET hist == lookupTabHistory(st, tabId, NoOrigin)
          IN IF hist # NoPage THEN Page(hist, "tabHistory") ELSE c
     ELSE IF onlyOrigin(c.url)
     THEN LET fh2 == lookupFrameHistory(st, tabId, frameId, c.url.origin)
              hist == lookupTabHistory(st, tabId, c.url.origin)
          IN IF fh2 # NoPage THEN Page(fh2, "frameHistory")
             ELSE IF hist # NoPage THEN Page(hist, "tabHistory")
             ELSE c
     ELSE c

(* ---- evidence: the pages and requests lists ---- *)
Kinds == {"pages", "requests"}
CapOf(kind) == IF kind = "pages" THEN MAX_PAGES_PER_DOMAIN ELSE MAX_REQS_PER_DOMAIN
Min(a, b) == IF a <= b THEN a ELSE b
UrlsOf(list) == {list[i].url : i \in 1..Len(list)}

(* list.findIndex((p) => p.url === url), 0 for -1 *)
UrlIndex(list, url) ==
  IF \E i \in 1..Len(list) : list[i].url = url
  THEN CHOOSE i \in 1..Len(list) :
         list[i].url = url /\ \A j \in 1..(i - 1) : list[j].url # url
  ELSE 0

(* list.sort((a, b) => b.ts - a.ts): newest first, and the sort is stable: *)
(* entries of equal ts keep their order.                                   *)
InsertByTsDesc(sorted, e) ==
  LET k == Cardinality({i \in 1..Len(sorted) : sorted[i].ts >= e.ts})
  IN SubSeq(sorted, 1, k) \o << e >> \o SubSeq(sorted, k + 1, Len(sorted))

RECURSIVE sortByTsDesc(_)
sortByTsDesc(list) ==
  IF list = << >> THEN << >>
  ELSE InsertByTsDesc(sortByTsDesc(SubSeq(list, 1, Len(list) - 1)), list[Len(list)])

(* list.slice(0, cap) *)
sliceTo(list, cap) == SubSeq(list, 1, Min(cap, Len(list)))

(* dk.sort((a, b) => ts(a) - ts(b)): ascending, keys of one ts in the      *)
(* order they had                                                          *)
InsertByTsAsc(sorted, e) ==
  LET k == Cardinality({i \in 1..Len(sorted) : sorted[i].ts <= e.ts})
  IN SubSeq(sorted, 1, k) \o << e >> \o SubSeq(sorted, k + 1, Len(sorted))

RECURSIVE sortByTsAsc(_)
sortByTsAsc(seq) ==
  IF seq = << >> THEN << >>
  ELSE InsertByTsAsc(sortByTsAsc(SubSeq(seq, 1, Len(seq) - 1)), seq[Len(seq)])

evictNewest(seq, max) ==
  IF Len(seq) > max
  THEN {sortByTsAsc(seq)[i].key : i \in (max + 1)..Len(seq)}
  ELSE {}

(* the keys that prune deletes from an object over its ceiling: the first  *)
(* length - max keys of the sorted list                                    *)
evictOldest(seq, max) ==
  IF Len(seq) > max
  THEN {sortByTsAsc(seq)[i].key : i \in 1..(Len(seq) - max)}
  ELSE {}

(* A Map<url, ts> as the sequence of its entries in insertion order.       *)
(* m.set(url, Math.max(m.get(url) || 0, ts)), and m.set(url, ts)           *)
MapSetMax(m, e) ==
  LET i == UrlIndex(m, e.url)
  IN IF i > 0 THEN [m EXCEPT ![i].ts = Max(@, e.ts)]
     ELSE Append(m, [url |-> e.url, ts |-> Max(0, e.ts)])

MapSet(m, e) ==
  LET i == UrlIndex(m, e.url)
  IN IF i > 0 THEN [m EXCEPT ![i].ts = e.ts]
     ELSE Append(m, [url |-> e.url, ts |-> e.ts])

RECURSIVE MapSetMaxAll(_, _)
MapSetMaxAll(m, list) ==
  IF list = << >> THEN m ELSE MapSetMaxAll(MapSetMax(m, Head(list)), Tail(list))

RECURSIVE MapSetAll(_, _)
MapSetAll(m, list) ==
  IF list = << >> THEN m ELSE MapSetAll(MapSet(m, Head(list)), Tail(list))

(* the shared PageRef objects of (d, kind) that are still in `urls` *)
KeepItems(items, d, kind, urls) ==
  {x \in items : (x[1] = d /\ x[2] = kind) => x[3] \in urls}

(* record d and its lists are dropped: nothing of d is shared any more *)
Unshare(refs, d) ==
  [arrays |-> {x \in refs.arrays : x[1] # d},
   items |-> {x \in refs.items : x[1] # d}]

(* item.pages[idx].ts = now() on the entry of url (the first one) *)
refreshTs(list, url, t) ==
  LET i == UrlIndex(list, url)
  IN IF i > 0 THEN [list EXCEPT ![i].ts = t] ELSE list

(* addPageContext and addRequestContext for a URL that is not empty: the   *)
(* two functions differ in the list and the cap only.  A push, a sort or a *)
(* ts written through an array or an object that the finding of the domain *)
(* also refers to shows in the finding.                                    *)
addContext(st, kind, domain, url) ==
  LET s0 == setDirty(IF Has(st.domainStatus, domain)
                     THEN [st EXCEPT !.recordTs = setTs(@, domain, st.now)]
                     ELSE [st EXCEPT !.domainStatus = Put(@, domain, PendingInfo),
                                     !.recordTs = setTs(@, domain, st.now)],
                     "domainStatus")
      list == s0.contexts[domain][kind]
      cap == CapOf(kind)
      sharedArr == << domain, kind >> \in s0.sharedRefs.arrays
      sharedItem == << domain, kind, url >> \in s0.sharedRefs.items
      pushed == Append(list, [url |-> url, ts |-> s0.now])
      sorted == sortByTsDesc(pushed)
      kept == sliceTo(sorted, cap)
  IN IF UrlIndex(list, url) > 0
     THEN [s0 EXCEPT
             !.contexts[domain][kind] = refreshTs(list, url, s0.now),
             !.findingContexts[domain][kind] =
                IF sharedArr \/ sharedItem THEN refreshTs(@, url, s0.now) ELSE @]
     ELSE IF Len(pushed) > cap
     THEN [s0 EXCEPT
             !.contexts[domain][kind] = kept,
             !.findingContexts[domain][kind] = IF sharedArr THEN sorted ELSE @,
             !.sharedRefs =
                [arrays |-> @.arrays \ {<< domain, kind >>},
                 items |-> KeepItems(
                    IF sharedArr THEN @.items \cup {<< domain, kind, url >>}
                    ELSE @.items, domain, kind, UrlsOf(kept))]]
     ELSE [s0 EXCEPT
             !.contexts[domain][kind] = pushed,
             !.findingContexts[domain][kind] = IF sharedArr THEN pushed ELSE @,
             !.sharedRefs.items =
                IF sharedArr THEN @ \cup {<< domain, kind, url >>} ELSE @]

addPageContext(st, domain, pageUrl) ==
  IF pageUrl = NoUrl THEN st ELSE addContext(st, "pages", domain, pageUrl)

addRequestContext(st, domain, reqUrl) ==
  IF reqUrl = NoUrl THEN st ELSE addContext(st, "requests", domain, reqUrl)

mergedContextsEmpty(list, cap) == << >>

(* one list of mergeContextsInto: by URL with the largest ts, newest first *)
mergedContexts(list, cap) ==
  sliceTo(sortByTsDesc(MapSetMaxAll(<< >>, list)), cap)

(* mergeContextsInto([cand], result): result.pages and result.requests     *)
mergeContextsInto(st, cand) ==
  IF Has(st.domainStatus, cand)
  THEN [pages |-> mergedContexts(st.contexts[cand].pages, MAX_PAGES_PER_DOMAIN),
        requests |-> mergedContexts(st.contexts[cand].requests, MAX_REQS_PER_DOMAIN)]
  ELSE NoContexts

mergedFindingConcat(existing, incoming, cap) ==
  sliceTo(sortByTsDesc(existing \o incoming), cap)

(* one list of an existing finding after the verdict's list was merged in *)
mergedFinding(existing, incoming, cap) ==
  sliceTo(sortByTsDesc(MapSetMaxAll(MapSetAll(<< >>, existing), incoming)), cap)

(* every array and object of the new finding is the record's *)
ShareAll(refs, d, ctx) ==
  [arrays |-> refs.arrays \cup {<< d, k >> : k \in Kinds},
   items |-> refs.items
               \cup {<< d, "pages", u >> : u \in UrlsOf(ctx.pages)}
               \cup {<< d, "requests", u >> : u \in UrlsOf(ctx.requests)}]

(* ---- propagateStatus: write the verdict, maintain the findings ---- *)
FindingIndexNone(list, d) == 0

FindingIndex(list, d) ==
  IF \E i \in 1..Len(list) : list[i].domain = d
  THEN CHOOSE i \in 1..Len(list) :
         list[i].domain = d /\ \A j \in 1..(i - 1) : list[j].domain # d
  ELSE 0

propagateStatusFlagsEvery(st, cand, result) ==
  LET merged == mergeContextsInto(st, cand)
      s1 == [st EXCEPT !.domainStatus = Put(@, cand, result),
                       !.recordTs = setTs(@, cand, st.now),
                       !.contexts[cand] = merged,
                       !.sharedRefs = Unshare(@, cand),
                       !.dirty = @ \cup {"domainStatus"},
                       !.applied = Append(@, [domain |-> cand, result |-> result])]
      idx == FindingIndex(s1.availableList, cand)
      existing == s1.findingContexts[cand]
  IN IF result.status = "unregistered"
     THEN IF idx > 0
          THEN persistSoon(
               [s1 EXCEPT !.availableList[idx].method = result.method,
                          !.findingContexts[cand] =
                             [pages |-> mergedFinding(existing.pages, merged.pages,
                                                      MAX_PAGES_PER_DOMAIN),
                              requests |-> mergedFinding(existing.requests,
                                                         merged.requests,
                                                         MAX_REQS_PER_DOMAIN)],
                          !.dirty = @ \cup {"availableList"},
                          !.hasNew = TRUE])
          ELSE persistSoon(
               [s1 EXCEPT !.availableList =
                            Append(@, [domain |-> cand, method |-> result.method]),
                          !.findingContexts[cand] = merged,
                          !.sharedRefs = ShareAll(@, cand, merged),
                          !.dirty = @ \cup {"availableList"},
                          !.hasNew = TRUE])
     ELSE s1

propagateStatus(st, cand, result) ==
  LET merged == mergeContextsInto(st, cand)
      s1 == [st EXCEPT !.domainStatus = Put(@, cand, result),
                       !.recordTs = setTs(@, cand, st.now),
                       !.contexts[cand] = merged,
                       !.sharedRefs = Unshare(@, cand),
                       !.dirty = @ \cup {"domainStatus"},
                       !.applied = Append(@, [domain |-> cand, result |-> result])]
      idx == FindingIndex(s1.availableList, cand)
      existing == s1.findingContexts[cand]
  IN IF result.status = "unregistered"
     THEN IF idx > 0
          THEN persistSoon(
               [s1 EXCEPT !.availableList[idx].method = result.method,
                          !.findingContexts[cand] =
                             [pages |-> mergedFinding(existing.pages, merged.pages,
                                                      MAX_PAGES_PER_DOMAIN),
                              requests |-> mergedFinding(existing.requests,
                                                         merged.requests,
                                                         MAX_REQS_PER_DOMAIN)],
                          !.dirty = @ \cup {"availableList"}])
          ELSE persistSoon(
               [s1 EXCEPT !.availableList =
                            Append(@, [domain |-> cand, method |-> result.method]),
                          !.findingContexts[cand] = merged,
                          !.sharedRefs = ShareAll(@, cand, merged),
                          !.dirty = @ \cup {"availableList"},
                          !.hasNew = TRUE])
     ELSE s1

(* ---- checkRegistrable, up to its first await ---- *)
InflightSetForgotten(m, d) == m

InflightSet(m, d) == m \cup {d}

checkRegistrable(st, registrable) ==
  IF registrable \in st.inflightByDomain
  THEN \* await the promise already in the map: no query of its own
       LET n == Len(st.attempts[registrable])
       IN [st EXCEPT !.attempts[registrable][n].waiters = @ + 1]
  ELSE [st EXCEPT
          !.attempts[registrable] =
             Append(@, [pc |-> "rdap", waiters |-> 1]),
          !.inflightByDomain = InflightSet(@, registrable),
          !.calls = Append(@, [query |-> "rdap", domain |-> registrable])]

(* ---- processQueue: one pass of the while loop, up to its await ---- *)
SlotFreeAlways(st) == TRUE

SlotFree(st) == st.inflight < MAX_CONCURRENCY

processQueueNewest(st) ==
  IF SlotFree(st) /\ Len(st.queue) > 0
  THEN LET item == st.queue[Len(st.queue)]
       IN checkRegistrable(
            [st EXCEPT !.queue = SubSeq(@, 1, Len(@) - 1),
                       !.active = @ \cup {item},
                       !.queued = @ \ {item},
                       !.inflight = @ + 1],
            item)
  ELSE st

processQueue(st) ==
  IF SlotFree(st) /\ Len(st.queue) > 0
  THEN LET item == Head(st.queue)
       IN checkRegistrable(
            [st EXCEPT !.queue = Tail(@),
                       !.active = @ \cup {item},
                       !.queued = @ \ {item},
                       !.inflight = @ + 1],
            item)
  ELSE st

processQueueResumeKeepsSlot(st, item) ==
  processQueue(persistSoon(
    [st EXCEPT !.active = @ \ {item},
               !.itemToHost = Del(@, item),
               !.drainTimers = IF Len(st.queue) > 0 THEN @ + 1 ELSE @]))

processQueueResumeReturns(st, item) ==
  persistSoon(
    [st EXCEPT !.active = @ \ {item},
               !.itemToHost = Del(@, item),
               !.inflight = Max(0, @ - 1),
               !.drainTimers = IF Len(st.queue) > 0 THEN @ + 1 ELSE @])

(* processQueue after `await checkRegistrable(item)` returned or threw:    *)
(* the finally block, then the loop condition again.                       *)
processQueueResume(st, item) ==
  processQueue(persistSoon(
    [st EXCEPT !.active = @ \ {item},
               !.itemToHost = Del(@, item),
               !.inflight = Max(0, @ - 1),
               !.drainTimers = IF Len(st.queue) > 0 THEN @ + 1 ELSE @]))

RECURSIVE ResumeWaiters(_, _, _)
ResumeWaiters(st, item, k) ==
  IF k = 0 THEN st ELSE ResumeWaiters(processQueueResume(st, item), item, k - 1)

(* The promise p of attempt i settles: .finally() drops the map entry and  *)
(* every processQueue that awaits it goes on.                              *)
Settle(st, registrable, i) ==
  LET k == st.attempts[registrable][i].waiters
      s1 == [st EXCEPT !.attempts[registrable] = RemoveAt(@, i),
                       !.inflightByDomain = @ \ {registrable}]
  IN ResumeWaiters(s1, registrable, k)

(* ---- ensureEnqueued ---- *)
HostOf(d) == << "www", d >>

skipThrottleNever(st, regDomain) == FALSE

skipThrottle(st, regDomain) ==
  /\ Has(st.lastQueued, regDomain)
  /\ st.lastQueued[regDomain] # 0
  /\ st.now - st.lastQueued[regDomain] < ENQUEUE_TTL_MS

expiredSoftEarly(ds, t) ==
  ds.method = "dns" /\ Has(ds, "softUntil") /\ t >= ds.softUntil

expiredSoft(ds, t) ==
  ds.method = "dns" /\ Has(ds, "softUntil") /\ t > ds.softUntil

skipResolvedErrorFinal(st, regDomain) ==
  /\ Has(st.domainStatus, regDomain)
  /\ LET ds == st.domainStatus[regDomain]
     IN /\ ds.status # "pending"
        /\ ~expiredSoft(ds, st.now)

skipResolved(st, regDomain) ==
  /\ Has(st.domainStatus, regDomain)
  /\ LET ds == st.domainStatus[regDomain]
     IN /\ ds.status # "pending"
        /\ ds.status # "error"
        /\ ~expiredSoft(ds, st.now)

skipActive(st, regDomain) == regDomain \in st.active

skipInqueueInflightOnly(st, regDomain) == regDomain \in st.inflightByDomain

skipInqueue(st, regDomain) ==
  regDomain \in st.inflightByDomain \/ regDomain \in st.queued

ensureEnqueued(st, regDomain, origHost) ==
  IF skipThrottle(st, regDomain) THEN st
  ELSE IF skipResolved(st, regDomain) THEN st
  ELSE IF skipActive(st, regDomain) THEN st
  ELSE IF skipInqueue(st, regDomain) THEN st
  ELSE processQueue(
         [st EXCEPT !.itemToHost = Put(@, regDomain, origHost),
                    !.queue = Append(@, regDomain),
                    !.queued = @ \cup {regDomain},
                    !.lastQueued = Put(@, regDomain, st.now)])

(* ---- the name-resolution fallback ---- *)
dnsCheckOne(out, t) ==
  IF ~out.ok
  THEN [status |-> "unknown", method |-> "dns"]
  ELSE LET ns == out.json
           rcode == ns.Status
           hasNS == ns.Status = 0 /\ ns.Answer > 0
           hasSOA == ns.SOA
       IN IF rcode = 3
          THEN [status |-> "unregistered", method |-> "dns"]
          ELSE IF rcode = 0 /\ (hasNS \/ hasSOA)
          THEN [status |-> "registered", method |-> "dns"]
          ELSE [status |-> "registered", method |-> "dns",
                softUntil |-> t + DNS_REGISTERED_SOFT_TTL_MS]

(* doh(name, 'NS'): what the fetch from each provider yields, a failure    *)
(* (no response, a timeout, an HTTP status that is not ok, a body that is   *)
(* not JSON) or the JSON of the reply.  Answer and Authority list the       *)
(* type of each resource record: 2 NS, 5 CNAME, 6 SOA.  queried lists the   *)
(* providers that were sent the query.                                      *)
DohReplies ==
  [Status : {0, 2, 3}, Answer : {<< >>, << 2 >>, << 5 >>}, Authority : {<< >>, << 6 >>}]

ProviderOutcomes == {[ok |-> FALSE]} \cup {[ok |-> TRUE, json |-> j] : j \in DohReplies}

doh(primary, secondary) ==
  IF primary.ok
  THEN [ok |-> TRUE, json |-> primary.json, queried |-> << "dns.google" >>]
  ELSE IF secondary.ok
  THEN [ok |-> TRUE, json |-> secondary.json,
        queried |-> << "dns.google", "cloudflare-dns.com" >>]
  ELSE [ok |-> FALSE, queried |-> << "dns.google", "cloudflare-dns.com" >>]

(* what dnsCheckOne reads of the reply: ns.Status, ns.Answer.length and     *)
(* whether some record of ns.Authority has type 6                           *)
readReply(out) ==
  IF out.ok
  THEN [ok |-> TRUE,
        json |-> [Status |-> out.json.Status,
                  Answer |-> Len(out.json.Answer),
                  SOA |-> \E k \in 1..Len(out.json.Authority) :
                            out.json.Authority[k] = 6]]
  ELSE [ok |-> FALSE]

(* dnsCheckOne on the outcomes of the two providers *)
dnsCheckOneVia(primary, secondary, t) ==
  dnsCheckOne(readReply(doh(primary, secondary)), t)

(* dnsFallback's cache check: a registered or unregistered record of the   *)
(* domain is returned as the result, without a query.                      *)
dnsFallbackCacheHit(st, registrable) ==
  /\ Has(st.domainStatus, registrable)
  /\ st.domainStatus[registrable].status \in {"registered", "unregistered"}

dnsFallbackCached(st, registrable) ==
  LET cs == st.domainStatus[registrable]
  IN [status |-> cs.status, method |-> cs.method, http |-> cs.http, url |-> cs.url]

(* dnsFallback's result from dnsCheckOne's: http 0, url '', softUntil kept *)
dnsFallbackResult(res) ==
  IF Has(res, "softUntil")
  THEN [status |-> res.status, method |-> res.method, http |-> 0, url |-> "",
        softUntil |-> res.softUntil]
  ELSE [status |-> res.status, method |-> res.method, http |-> 0, url |-> ""]

softFailKeepsThrottle(st, registrable) == st

(* the soft-fail: no verdict, the throttle is lifted *)
softFail(st, registrable) ==
  [st EXCEPT !.lastQueued = Del(@, registrable)]

checkRegistrableAfterDnsCommitsAny(st, registrable, i, result) ==
  Settle(propagateStatus(st, registrable, result), registrable, i)

(* checkRegistrable after `await dnsFallback(...)`, in either branch *)
checkRegistrableAfterDns(st, registrable, i, result) ==
  IF result.status = "registered" \/ result.status = "unregistered"
  THEN Settle(propagateStatus(st, registrable, result), registrable, i)
  ELSE Settle(softFail(st, registrable), registrable, i)

redirectedOffAggregatorAny404(resp) == TRUE

redirectedOffAggregator(resp) == resp.finalUrl # AggregatorUrl

(* checkRegistrable after `await rdapFetch(registrable)` *)
checkRegistrableAfterRdap(st, registrable, i, resp) ==
  IF resp.ok /\ resp.status = 200
  THEN Settle(propagateStatus(st, registrable,
                [status |-> "registered", method |-> "rdap", http |-> 200,
                 url |-> resp.finalUrl]), registrable, i)
  ELSE IF ~resp.ok /\ resp.status = 404 /\ redirectedOffAggregator(resp)
  THEN Settle(propagateStatus(st, registrable,
                [status |-> "unregistered", method |-> "rdap", http |-> 404,
                 url |-> resp.finalUrl]), registrable, i)
  ELSE IF ~resp.ok /\ (resp.status = 404 \/ resp.status = 0)
  THEN IF dnsFallbackCacheHit(st, registrable)
       THEN checkRegistrableAfterDns(st, registrable, i,
                                     dnsFallbackCached(st, registrable))
       ELSE [st EXCEPT
               !.attempts[registrable][i].pc = "doh",
               !.calls = Append(@, [query |-> "doh", domain |-> registrable])]
  ELSE Settle(propagateStatus(st, registrable,
                [status |-> "error", method |-> "rdap", http |-> resp.status,
                 url |-> resp.finalUrl]), registrable, i)

(* rdapFetch's result when its attempt and its retry both failed *)
RdapTransportFailure == [ok |-> FALSE, status |-> 0, finalUrl |-> AggregatorUrl]

(* ---- prune: the clamp of the evidence lists ---- *)
(* A list over its cap is sorted in place and then replaced by its first  *)
(* cap entries: the records first, then the findings.                      *)
pruneClamp(st, d, kind) ==
  LET cap == CapOf(kind)
      rec0 == st.contexts[d][kind]
      fnd0 == st.findingContexts[d][kind]
      arr0 == << d, kind >> \in st.sharedRefs.arrays
      over == Has(st.domainStatus, d) /\ Len(rec0) > cap
      rec1 == IF over THEN sliceTo(sortByTsDesc(rec0), cap) ELSE rec0
      fnd1 == IF over /\ arr0 THEN sortByTsDesc(rec0) ELSE fnd0
      arr1 == arr0 /\ ~over
      overF == FindingIndex(st.availableList, d) > 0 /\ Len(fnd1) > cap
      fnd2 == IF overF THEN sliceTo(sortByTsDesc(fnd1), cap) ELSE fnd1
      rec2 == IF overF /\ arr1 THEN sortByTsDesc(fnd1) ELSE rec1
  IN [rec |-> rec2, fnd |-> fnd2, arr |-> arr1 /\ ~overF,
      modifiedDomainStatus |-> over, modifiedAvailable |-> overF]

(* prune's TTL pass over the tab and frame histories: a history left      *)
(* empty is deleted                                                        *)
pruneHistories(m, cutoff) ==
  [k \in {x \in DOMAIN m : shiftExpired(m[x], cutoff) # << >>} |->
     shiftExpired(m[k], cutoff)]

(* prune's GC of a map of times: the entries older than REQ_GC_WINDOW_MS *)
gcOlder(m, nowTs) ==
  [k \in {x \in DOMAIN m : ~(nowTs - m[x] > REQ_GC_WINDOW_MS)} |-> m[k]]

pruneLists(st) ==
  [st EXCEPT
     !.seenRequestIds = gcOlder(@, st.now),
     !.lastQueued = gcOlder(@, st.now),
     !.tabHistory = pruneHistories(@, st.now - TAB_HISTORY_TTL_MS),
     !.frameHistory = pruneHistories(@, st.now - TAB_HISTORY_TTL_MS),
     !.contexts = [d \in KnownDomains |->
                     [pages |-> pruneClamp(st, d, "pages").rec,
                      requests |-> pruneClamp(st, d, "requests").rec]],
     !.findingContexts = [d \in KnownDomains |->
                     [pages |-> pruneClamp(st, d, "pages").fnd,
                      requests |-> pruneClamp(st, d, "requests").fnd]],
     !.sharedRefs =
        [arrays |-> {x \in @.arrays : pruneClamp(st, x[1], x[2]).arr},
         items |-> {x \in @.items :
                      /\ x[3] \in UrlsOf(pruneClamp(st, x[1], x[2]).rec)
                      /\ x[3] \in UrlsOf(pruneClamp(st, x[1], x[2]).fnd)}],
     !.dirty = @ \cup
        (IF \E d \in KnownDomains : \E k \in Kinds :
              pruneClamp(st, d, k).modifiedDomainStatus
         THEN {"domainStatus"} ELSE {})
        \cup
        (IF \E d \in KnownDomains : \E k \in Kinds :
              pruneClamp(st, d, k).modifiedAvailable
         THEN {"availableList"} ELSE {})]

(* prune's two bounds: the records and the hosts over their ceilings, the *)
(* oldest first.  The evidence of a record goes with the record.           *)
pruneBounds(st) ==
  LET del == evictOldest(st.recordTs, MAX_DOMAINS)
      delH == evictOldest(st.hostSeenTs, MAX_HOSTS)
  IN [st EXCEPT
        !.domainStatus = [d \in (DOMAIN @) \ del |-> @[d]],
        !.contexts = [d \in KnownDomains |->
                        IF d \in del THEN NoContexts ELSE @[d]],
        !.sharedRefs = [arrays |-> {x \in @.arrays : x[1] \notin del},
                        items |-> {x \in @.items : x[1] \notin del}],
        !.recordTs = delTs(@, del),
        !.hostSeen = @ \ delH,
        !.hostSeenTs = delTs(@, delH),
        !.dirty = @ \cup (IF del # {} THEN {"domainStatus"} ELSE {})
                    \cup (IF delH # {} THEN {"hostSeen"} ELSE {})]

(* prune: the bounds run once, and the rest of prune reads their result *)
prune(st) ==
  CHOOSE r \in {pruneLists(bounded) : bounded \in {pruneBounds(st)}} : TRUE

(* ---- persist, persistSelective, triggerPersist ---- *)
(* persist() up to the await of storage.set: prune, then persistSelective  *)
(* builds the payload from the dirty flags and calls storage.set.  With    *)
(* nothing dirty there is no call and persist() is over, its caller going  *)
(* on in the same turn of the event loop.                                  *)
persistWrites(st) == prune(st).dirty # {}

persist(st, then) ==
  LET s1 == prune(st)
  IN IF s1.dirty = {} THEN s1 ELSE storageSet(s1, s1.dirty, then)

(* persistSelective after `await storage.set(payload)`: every flag is reset *)
clearDirty(st) == [st EXCEPT !.dirty = {}]

(* the finally block of triggerPersist *)
triggerPersistFinally(st) ==
  IF st.persistPending
  THEN [st EXCEPT !.persistInFlight = FALSE,
                  !.persistPending = FALSE,
                  !.persistTimers = @ + 1,
                  !.persistTimer = TRUE,
                  !.persistScheduled = TRUE]
  ELSE [st EXCEPT !.persistInFlight = FALSE]

(* triggerPersist, run by one of the pending timers *)
triggerPersist(st) ==
  LET s0 == [st EXCEPT !.persistTimers = @ - 1, !.persistTimer = FALSE]
  IN IF s0.persistInFlight
     THEN [s0 EXCEPT !.persistPending = TRUE]
     ELSE LET s1 == [s0 EXCEPT !.persistScheduled = FALSE,
                               !.persistInFlight = TRUE]
          IN IF persistWrites(s1)
             THEN persist(s1, "triggerPersist")
             ELSE triggerPersistFinally(persist(s1, "triggerPersist"))

(* The first storage.set in flight completes: storage holds its payload    *)
(* and what awaited it goes on.                                            *)
storageSetCompleted(st) ==
  LET w == Head(st.writes)
      s1 == [st EXCEPT !.writes = Tail(@),
                       !.stored = Override(@, w.payload)]
  IN IF w.then = "triggerPersist" THEN triggerPersistFinally(clearDirty(s1))
     ELSE IF w.then = "persist" THEN clearDirty(s1)
     ELSE s1

(* ---- suspension and init ---- *)
(* The process is killed and started again: the top level of the script    *)
(* has run, init() awaits storage.get.  Of the storage.set calls that were *)
(* in flight, the first k have reached storage.                            *)
RECURSIVE storedAfter(_, _, _)
storedAfter(m, ws, k) ==
  IF k = 0 THEN m ELSE storedAfter(Override(m, Head(ws).payload), Tail(ws), k - 1)

scriptStarted(st, k) ==
  [st EXCEPT
     !.stored = storedAfter(st.stored, st.writes, k),
     !.domainStatus = EmptyMap,
     !.availableList = << >>,
     !.hasNew = FALSE,
     !.queue = << >>,
     !.queued = {},
     !.active = {},
     !.inflight = 0,
     !.inflightByDomain = {},
     !.lastQueued = EmptyMap,
     !.itemToHost = EmptyMap,
     !.attempts = [d \in KnownDomains |-> << >>],
     !.drainTimers = 0,
     !.contexts = [d \in KnownDomains |-> NoContexts],
     !.findingContexts = [d \in KnownDomains |-> NoContexts],
     !.sharedRefs = NoSharedRefs,
     !.hostSeen = {},
     !.tabTopUrl = EmptyMap,
     !.tabHistory = EmptyMap,
     !.frameHistory = EmptyMap,
     !.seenRequestIds = EmptyMap,
     !.recordTs = << >>,
     !.hostSeenTs = << >>,
     !.dirty = {},
     !.persistTimers = 0,
     !.persistTimer = FALSE,
     !.persistScheduled = FALSE,
     !.persistInFlight = FALSE,
     !.persistPending = FALSE,
     !.writes = << >>,
     !.initLoading = TRUE]

(* init after `await storage.get(...)` *)
init(st) ==
  LET s == st.stored
  IN processQueue(
       [st EXCEPT
          !.hostSeen = IF Has(s, "hostSeen") THEN s.hostSeen.hosts ELSE {},
          !.hostSeenTs = IF Has(s, "hostSeen") THEN s.hostSeen.ts ELSE << >>,
          !.recordTs =
             IF Has(s, "domainStatus") THEN s.domainStatus.ts ELSE << >>,
          !.tabTopUrl = IF Has(s, "tabTopUrl") THEN s.tabTopUrl ELSE EmptyMap,
          !.domainStatus =
             IF Has(s, "domainStatus") THEN s.domainStatus.records ELSE EmptyMap,
          !.contexts =
             IF Has(s, "domainStatus") THEN s.domainStatus.contexts
             ELSE [d \in KnownDomains |-> NoContexts],
          !.availableList =
             IF Has(s, "availableList") THEN s.availableList.list ELSE << >>,
          !.findingContexts =
             IF Has(s, "availableList") THEN s.availableList.contexts
             ELSE [d \in KnownDomains |-> NoContexts],
          !.sharedRefs = NoSharedRefs,
          !.initLoading = FALSE])

(* ---- actions ---- *)
Tick ==
  /\ clock < MaxTime
  /\ clock' = clock + 1
  /\ UNCHANGED << domainStatus, availableList, hasNew, queue, queued, active,
                  inflight, inflightByDomain, lastQueued, itemToHost, attempts,
                  drainTimers, contexts, findingContexts, sharedRefs >>
  /\ UNCHANGED persistVars
  /\ UNCHANGED restVars

TickSoft ==
  /\ clock < MaxTimeSoft
  /\ clock' = clock + 1
  /\ UNCHANGED << domainStatus, availableList, hasNew, queue, queued, active,
                  inflight, inflightByDomain, lastQueued, itemToHost, attempts,
                  drainTimers, contexts, findingContexts, sharedRefs >>
  /\ UNCHANGED persistVars
  /\ UNCHANGED restVars

(* The end of every signal listener, for a host with the ICANN registrable *)
(* domain d: the record is made pending when there is none, then the       *)
(* domain is submitted.  This is all a signal does that brings no URL to   *)
(* record (a cspViolation report of a blob: URL without page context);     *)
(* onBeforeRequestListener has the recording of the URLs before it.        *)
ensurePending(st, registrable) ==
  IF Has(st.domainStatus, registrable)
  THEN st
  ELSE [st EXCEPT !.domainStatus = Put(@, registrable, PendingInfo),
                  !.recordTs = setTs(@, registrable, st.now)]

onBeforeRequestHandler(st, registrable, host) ==
  ensureEnqueued(ensurePending(st, registrable), registrable, host)

onBeforeRequest(d) ==
  /\ d \in KnownDomains
  /\ Commit(onBeforeRequestHandler(S, d, HostOf(d)))

(* The listener for a request to requestUrl seen on the page pageUrl       *)
(* (NoUrl when no page context is found): the host is counted, the         *)
(* evidence is recorded, then the record is made pending when there is     *)
(* none and the domain submitted.  bump says that the host was last seen   *)
(* HOST_SEEN_BUMP_MS ago or earlier; a host not seen before always is.     *)
hostSeenBump(st, host, bump) ==
  LET s1 == [st EXCEPT !.hostSeen = @ \cup {host},
                       !.hostSeenTs = setTs(@, host, st.now)]
  IN IF bump \/ host \notin st.hostSeen
     THEN persistSoon(setDirty(s1, "hostSeen"))
     ELSE s1

onBeforeRequestListener(st, registrable, host, pageUrl, requestUrl, bump) ==
  onBeforeRequestHandler(
    addRequestContext(addPageContext(hostSeenBump(st, host, bump),
                                     registrable, pageUrl),
                      registrable, requestUrl),
    registrable, host)

(* onErrorOccurred after its dedup: the evidence, the pending record, the  *)
(* admission; the host is not counted                                      *)
onErrorOccurredListener(st, registrable, host, pageUrl, requestUrl) ==
  onBeforeRequestHandler(
    addRequestContext(addPageContext(st, registrable, pageUrl),
                      registrable, requestUrl),
    registrable, host)

(* The head of the two webRequest listeners.  NoRequestId is an event with *)
(* no requestId, which is never taken for a duplicate and leaves no entry. *)
NoRequestId == ""

isDuplicateAlways(st, requestId) == Has(st.seenRequestIds, requestId)

(* seenRequestIds[requestId] && t - seenRequestIds[requestId] < REQ_TTL_MS *)
isDuplicate(st, requestId) ==
  /\ Has(st.seenRequestIds, requestId)
  /\ st.seenRequestIds[requestId] # 0
  /\ st.now - st.seenRequestIds[requestId] < REQ_TTL_MS

markSeen(st, requestId) ==
  IF requestId = NoRequestId
  THEN st
  ELSE [st EXCEPT !.seenRequestIds = Put(@, requestId, st.now)]

onBeforeRequestDedup(st, requestId, registrable, host, pageUrl, requestUrl, bump) ==
  IF requestId # NoRequestId /\ isDuplicate(st, requestId)
  THEN st
  ELSE onBeforeRequestListener(markSeen(st, requestId), registrable, host,
                               pageUrl, requestUrl, bump)

onErrorOccurredDedup(st, requestId, registrable, host, pageUrl, requestUrl) ==
  IF requestId # NoRequestId /\ isDuplicate(st, requestId)
  THEN st
  ELSE onErrorOccurredListener(markSeen(st, requestId), registrable, host,
                               pageUrl, requestUrl)

onBeforeRequestSeen(d, pageUrl, requestUrl) ==
  /\ d \in KnownDomains
  /\ Commit(onBeforeRequestListener(S, d, HostOf(d), pageUrl, requestUrl, TRUE))

(* `await rdapFetch(registrable)` returns an HTTP response *)
RdapAnswers(d, i, resp) ==
  /\ attempts[d][i].pc = "rdap"
  /\ Commit(checkRegistrableAfterRdap(S, d, i, resp))

(* `await rdapFetch(registrable)` returns status 0: attempt and retry failed *)
RdapFails(d, i) ==
  /\ attempts[d][i].pc = "rdap"
  /\ Commit(checkRegistrableAfterRdap(S, d, i, RdapTransportFailure))

(* `await dnsFallback(registrable)`: a DoH provider answered with JSON *)
DohAnswers(d, i, json) ==
  /\ attempts[d][i].pc = "doh"
  /\ Commit(checkRegistrableAfterDns(S, d, i,
       dnsFallbackResult(dnsCheckOne([ok |-> TRUE, json |-> json], clock))))

(* `await dnsFallback(registrable)`: both DoH providers failed or timed out *)
DohFails(d, i) ==
  /\ attempts[d][i].pc = "doh"
  /\ Commit(checkRegistrableAfterDns(S, d, i,
       dnsFallbackResult(dnsCheckOne([ok |-> FALSE], clock))))

(* checkRegistrable throws; processQueue's catch logs it, finally runs *)
CheckThrows(d, i) ==
  /\ i \in 1..Len(attempts[d])
  /\ Commit(Settle(S, d, i))

(* a setTimeout(() => processQueue(), 0) callback runs *)
DrainTimerFires ==
  /\ drainTimers > 0
  /\ Commit(processQueue([S EXCEPT !.drainTimers = @ - 1]))

recheckDomainHandlerKeepsThrottle(st, registrable) ==
  LET s1 == [st EXCEPT !.domainStatus = Del(@, registrable),
                       !.recordTs = delTs(@, {registrable}),
                       !.contexts[registrable] = NoContexts,
                       !.sharedRefs = Unshare(@, registrable)]
      hostHint == IF Has(s1.itemToHost, registrable)
                  THEN s1.itemToHost[registrable]
                  ELSE HostOf(registrable)
  IN ensureEnqueued(s1, registrable, hostHint)

recheckDomainHandler(st, registrable) ==
  LET s1 == [st EXCEPT !.domainStatus = Del(@, registrable),
                       !.recordTs = delTs(@, {registrable}),
                       !.contexts[registrable] = NoContexts,
                       !.sharedRefs = Unshare(@, registrable),
                       !.lastQueued = Del(@, registrable)]
      hostHint == IF Has(s1.itemToHost, registrable)
                  THEN s1.itemToHost[registrable]
                  ELSE HostOf(registrable)
  IN ensureEnqueued(s1, registrable, hostHint)

recheckDomain(d) ==
  /\ d \in KnownDomains
  /\ Commit(recheckDomainHandler(S, d))

clearCacheHandler(st) ==
  LET s1 == [st EXCEPT !.hostSeen = {},
                       !.hostSeenTs = << >>,
                       !.domainStatus = EmptyMap,
                       !.recordTs = << >>,
                       !.contexts = [d \in KnownDomains |-> NoContexts],
                       !.sharedRefs = NoSharedRefs,
                       !.queue = << >>,
                       !.hasNew = FALSE,
                       !.active = {},
                       !.lastQueued = EmptyMap,
                       !.queued = {},
                       !.itemToHost = EmptyMap]
  IN persist(storageSet(s1, {"hostSeen", "domainStatus"}, "none"), "persist")

clearCache ==
  /\ TRUE
  /\ Commit(clearCacheHandler(S))

clearAvailableHandlerDropsCache(st) ==
  storageSet([st EXCEPT !.availableList = << >>,
                        !.findingContexts = [d \in KnownDomains |-> NoContexts],
                        !.sharedRefs = NoSharedRefs,
                        !.domainStatus = EmptyMap,
                        !.recordTs = << >>,
                        !.hasNew = FALSE],
             {"availableList"}, "none")

clearAvailableHandler(st) ==
  storageSet([st EXCEPT !.availableList = << >>,
                        !.findingContexts = [d \in KnownDomains |-> NoContexts],
                        !.sharedRefs = NoSharedRefs,
                        !.hasNew = FALSE],
             {"availableList"}, "none")

clearAvailable ==
  /\ TRUE
  /\ Commit(clearAvailableHandler(S))

ackNew ==
  /\ TRUE
  /\ Commit([S EXCEPT !.hasNew = FALSE])

(* Two domains, every kind of answer, three throttle windows.  Two       *)
(* domains never fill the MAX_CONCURRENCY slots, so nothing waits in the   *)
(* queue and no drain timer is set: SpecDrain has those.                   *)
Next ==
  \/ Tick
  \/ \E d \in Domains : onBeforeRequest(d)
  \/ \E d \in Domains : \E i \in 1..Len(attempts[d]) :
       \E resp \in HttpResponses : RdapAnswers(d, i, resp)
  \/ \E d \in Domains : \E i \in 1..Len(attempts[d]) : RdapFails(d, i)
  \/ \E d \in Domains : \E i \in 1..Len(attempts[d]) :
       \E json \in DohJson : DohAnswers(d, i, json)
  \/ \E d \in Domains : \E i \in 1..Len(attempts[d]) : DohFails(d, i)
  \/ \E d \in Domains : \E i \in 1..Len(attempts[d]) : CheckThrows(d, i)
  \/ \E d \in Domains : recheckDomain(d)
  \/ clearCache
  \/ clearAvailable
  \/ ackNew

Spec == Init /\ [][Next]_vars

(* One domain over a span of time longer than the soft TTL. *)
NextSoft ==
  \/ TickSoft
  \/ \E d \in SoftDomains : onBeforeRequest(d)
  \/ \E d \in SoftDomains : \E i \in 1..Len(attempts[d]) :
       \E resp \in HttpResponses : RdapAnswers(d, i, resp)
  \/ \E d \in SoftDomains : \E i \in 1..Len(attempts[d]) : RdapFails(d, i)
  \/ \E d \in SoftDomains : \E i \in 1..Len(attempts[d]) :
       \E json \in DohJson : DohAnswers(d, i, json)
  \/ \E d \in SoftDomains : \E i \in 1..Len(attempts[d]) : DohFails(d, i)
  \/ \E d \in SoftDomains : \E i \in 1..Len(attempts[d]) : CheckThrows(d, i)
  \/ \E d \in SoftDomains : recheckDomain(d)
  \/ clearCache
  \/ clearAvailable
  \/ ackNew

SpecSoft == Init /\ [][NextSoft]_vars

(* clear-findings and clear-cache, with the history of cleared findings:   *)
(* clearAvailable empties the list, so every domain listed joins the       *)
(* history; clearCache starts it again.                                    *)
clearAvailableNoted ==
  /\ CommitPipeline(clearAvailableHandler(S))
  /\ UNCHANGED persistVars
  /\ clearedFindings' =
       clearedFindings \cup {availableList[k].domain : k \in 1..Len(availableList)}
  /\ UNCHANGED << trackerVars, dedupVars, evictVars >>

clearCacheNoted ==
  /\ CommitPipeline(clearCacheHandler(S))
  /\ UNCHANGED persistVars
  /\ clearedFindings' = {}
  /\ UNCHANGED << trackerVars, dedupVars, evictVars >>

(* One domain over a span of time longer than the soft TTL, with the       *)
(* history of its cleared finding.                                         *)
NextCleared ==
  \/ TickSoft
  \/ \E d \in SoftDomains : onBeforeRequest(d)
  \/ \E d \in SoftDomains : \E i \in 1..Len(attempts[d]) :
       \E resp \in HttpResponses : RdapAnswers(d, i, resp)
  \/ \E d \in SoftDomains : \E i \in 1..Len(attempts[d]) : RdapFails(d, i)
  \/ \E d \in SoftDomains : \E i \in 1..Len(attempts[d]) :
       \E json \in DohJson : DohAnswers(d, i, json)
  \/ \E d \in SoftDomains : \E i \in 1..Len(attempts[d]) : DohFails(d, i)
  \/ \E d \in SoftDomains : \E i \in 1..Len(attempts[d]) : CheckThrows(d, i)
  \/ \E d \in SoftDomains : recheckDomain(d)
  \/ clearCacheNoted
  \/ clearAvailableNoted
  \/ ackNew

SpecCleared == Init /\ [][NextCleared]_vars

(* The drain: three domains for MAX_CONCURRENCY slots.  The registry      *)
(* answers 200 or not at all and the resolvers do not answer, so a check   *)
(* ends in a verdict, a soft-fail or an exception.                         *)
CheckStep(d) ==
  \E i \in 1..Len(attempts[d]) :
    \/ RdapAnswers(d, i, Http200)
    \/ RdapFails(d, i)
    \/ DohFails(d, i)
    \/ CheckThrows(d, i)

NextDrain ==
  \/ Tick
  \/ \E d \in AllDomains : onBeforeRequest(d)
  \/ \E d \in AllDomains : CheckStep(d)
  \/ DrainTimerFires
  \/ \E d \in AllDomains : recheckDomain(d)
  \/ clearCache

SpecDrain == Init /\ [][NextDrain]_vars

(* The drain when every resolution attempt terminates (each await of a    *)
(* check settles) and every timer callback that was set runs.  Network     *)
(* events and clear-cache stay free to happen or not, within one throttle  *)
(* window.                                                                 *)
NextLive ==
  \/ \E d \in AllDomains : onBeforeRequest(d)
  \/ \E d \in AllDomains : CheckStep(d)
  \/ DrainTimerFires
  \/ clearCache

LiveDrain ==
  /\ Init
  /\ [][NextLive]_vars
  /\ \A d \in AllDomains : WF_vars(CheckStep(d))
  /\ WF_vars(DrainTimerFires)

(* what persist() does to the state in memory: prune *)
persistPrunes ==
  /\ TRUE
  /\ Commit(prune(S))

TickEvidence ==
  /\ clock < MaxTimeEvidence
  /\ clock' = clock + 1
  /\ UNCHANGED << domainStatus, availableList, hasNew, queue, queued, active,
                  inflight, inflightByDomain, lastQueued, itemToHost, attempts,
                  drainTimers, contexts, findingContexts, sharedRefs >>
  /\ UNCHANGED persistVars
  /\ UNCHANGED restVars

(* The evidence of one domain: requests to three URLs, each a main-frame   *)
(* request (the page is the request URL) or a request without page         *)
(* context, while the domain is checked, found unregistered or registered, *)
(* rechecked and cleared.                                                  *)
Http404 == [ok |-> FALSE, status |-> 404, finalUrl |-> RegistryUrl]

NextEvidence ==
  \/ TickEvidence
  \/ \E d \in EvidenceDomains : \E r \in Urls : onBeforeRequestSeen(d, r, r)
  \/ \E d \in EvidenceDomains : onBeforeRequestSeen(d, NoUrl, SubframeUrl)
  \/ \E d \in EvidenceDomains : \E i \in 1..Len(attempts[d]) :
       \E resp \in {Http200, Http404} : RdapAnswers(d, i, resp)
  \/ \E d \in EvidenceDomains : \E i \in 1..Len(attempts[d]) : CheckThrows(d, i)
  \/ \E d \in EvidenceDomains : recheckDomain(d)
  \/ clearAvailable
  \/ persistPrunes

SpecEvidence == Init /\ [][NextEvidence]_vars

(* ---- the actions with persistence ---- *)
(* The same handlers, committed with what they did to the dirty flags, the *)
(* persist timers and the writes.  recent is the reading of                *)
(* performance.now() that persistSoon takes.                               *)
WithRecent(recent) == [S EXCEPT !.recent = recent]

onBeforeRequestAll(d, requestUrl, bump, recent) ==
  /\ d \in AllDomains
  /\ CommitAll(onBeforeRequestListener(WithRecent(recent), d, HostOf(d), NoUrl,
                                       requestUrl, bump))

RdapAnswersAll(d, i, resp, recent) ==
  /\ attempts[d][i].pc = "rdap"
  /\ CommitAll(checkRegistrableAfterRdap(WithRecent(recent), d, i, resp))

CheckThrowsAll(d, i, recent) ==
  /\ i \in 1..Len(attempts[d])
  /\ CommitAll(Settle(WithRecent(recent), d, i))

clearAvailableAll ==
  /\ TRUE
  /\ CommitAll(clearAvailableHandler(S))

(* a setTimeout(triggerPersist, ...) callback runs *)
PersistTimerFires ==
  /\ persistTimers > 0
  /\ CommitAll(triggerPersist(S))

StorageSetCompletes ==
  /\ writes # << >>
  /\ CommitAll(storageSetCompleted(S))

(* the host runtime kills the process and starts it again *)
Suspend(k) ==
  /\ k \in 0..Len(writes)
  /\ CommitAll(scriptStarted(S, k))

initLoads ==
  /\ initLoading
  /\ CommitAll(init(S))

(* One domain and two request URLs at one clock value, with the debounce   *)
(* and the writes to storage.                                              *)
NextPersist ==
  \/ \E d \in PersistDomains : \E r \in PersistUrls :
       \E bump \in BOOLEAN : \E recent \in BOOLEAN :
         onBeforeRequestAll(d, r, bump, recent)
  \/ \E d \in PersistDomains : \E i \in 1..Len(attempts[d]) :
       \E resp \in {Http200, Http404} : \E recent \in BOOLEAN :
         RdapAnswersAll(d, i, resp, recent)
  \/ \E d \in PersistDomains : \E i \in 1..Len(attempts[d]) :
       \E recent \in BOOLEAN : CheckThrowsAll(d, i, recent)
  \/ clearAvailableAll
  \/ PersistTimerFires
  \/ StorageSetCompletes

SpecPersist == Init /\ [][NextPersist]_vars

(* The restart of the process: one domain and one request URL.  The        *)
(* registry answers every query, every timer callback that was set runs,   *)
(* every write completes and init gets its answer from storage; requests   *)
(* and kills happen or not.                                                *)
CheckAnswered(d) ==
  \E i \in 1..Len(attempts[d]) : \E resp \in {Http200, Http404} :
    \E recent \in BOOLEAN : RdapAnswersAll(d, i, resp, recent)

(* the periodic queue alarm: its listener calls processQueue *)
onAlarm ==
  /\ ~initLoading
  /\ CommitAll(processQueue(S))

NextRestart ==
  \/ \E d \in PersistDomains : \E bump \in BOOLEAN : \E recent \in BOOLEAN :
       onBeforeRequestAll(d, RestartUrl, bump, recent)
  \/ \E d \in PersistDomains : CheckAnswered(d)
  \/ PersistTimerFires
  \/ StorageSetCompletes
  \/ \E k \in 0..MaxWrites : Suspend(k)
  \/ initLoads
  \/ onAlarm

LiveRestart ==
  /\ Init
  /\ [][NextRestart]_vars
  /\ \A d \in PersistDomains : WF_vars(CheckAnswered(d))
  /\ WF_vars(PersistTimerFires)
  /\ WF_vars(StorageSetCompletes)
  /\ WF_vars(initLoads)
  /\ WF_vars(onAlarm)

(* The restart with two request URLs: evidence recorded before and after   *)
(* the cache and the findings are loaded from storage.                     *)
NextReload ==
  \/ \E d \in PersistDomains : \E r \in PersistUrls : \E recent \in BOOLEAN :
       onBeforeRequestAll(d, r, TRUE, recent)
  \/ \E d \in PersistDomains : CheckAnswered(d)
  \/ PersistTimerFires
  \/ StorageSetCompletes
  \/ \E k \in 0..MaxWrites : Suspend(k)
  \/ initLoads

SpecReload == Init /\ [][NextReload]_vars

(* `await dnsFallback(registrable)` returns after doh asked its providers *)
DohProviders(d, i, primary, secondary) ==
  /\ attempts[d][i].pc = "doh"
  /\ Commit(checkRegistrableAfterDns(
              S, d, i, dnsFallbackResult(dnsCheckOneVia(primary, secondary, clock))))

(* One domain whose registry lookup ends in the name-resolution fallback:  *)
(* the aggregator answers 404 itself or not at all, and each of the two    *)
(* resolvers answers or fails.                                             *)
NextResolver ==
  \/ TickSoft
  \/ \E d \in SoftDomains : onBeforeRequest(d)
  \/ \E d \in SoftDomains : \E i \in 1..Len(attempts[d]) :
       RdapAnswers(d, i, [ok |-> FALSE, status |-> 404, finalUrl |-> AggregatorUrl])
  \/ \E d \in SoftDomains : \E i \in 1..Len(attempts[d]) : RdapFails(d, i)
  \/ \E d \in SoftDomains : \E i \in 1..Len(attempts[d]) :
       \E primary \in ProviderOutcomes : \E secondary \in ProviderOutcomes :
         DohProviders(d, i, primary, secondary)
  \/ \E d \in SoftDomains : recheckDomain(d)
  \/ clearAvailable

SpecResolver == Init /\ [][NextResolver]_vars

(* ---- the actions of the context tracker ---- *)
(* The handlers of the tracker also ask for a persist (persistSoon, the    *)
(* tabTopUrl dirty flag); the specifications of the tracker commit what    *)
(* they did to the histories.                                              *)
CommitTracker(result) ==
  \E st \in {result} :
    /\ tabTopUrl' = st.tabTopUrl
    /\ tabHistory' = st.tabHistory
    /\ frameHistory' = st.frameHistory
    /\ UNCHANGED << pipelineVars, persistVars, historyVars, dedupVars,
                    evictVars >>

TickTabs ==
  /\ clock < MaxTimeTabs
  /\ clock' = clock + 1
  /\ UNCHANGED << domainStatus, availableList, hasNew, queue, queued, active,
                  inflight, inflightByDomain, lastQueued, itemToHost, attempts,
                  drainTimers, contexts, findingContexts, sharedRefs >>
  /\ UNCHANGED << persistVars, restVars >>

webNavigation(tabId, frameId, url) ==
  /\ url # NoPage
  /\ CommitTracker(webNavigationHandler(S, tabId, frameId, url))

tabsOnUpdated(tabId, url) ==
  /\ url # NoPage
  /\ CommitTracker(tabsOnUpdatedHandler(S, tabId, url))

tabsOnRemoved(tabId) ==
  /\ IsNumber(tabId)
  /\ CommitTracker(tabsOnRemovedHandler(S, tabId))

(* persist()'s prune, for the histories *)
pruneTabs ==
  /\ TRUE
  /\ CommitTracker(prune(S))

(* the tabs and frames of SpecTabs: two tab ids of which one's decimal     *)
(* digits start the other's                                                *)
TabIds == {1, 11}
FrameIds == {0, 1}
TabUrl == [origin |-> "https://a.example", path |-> "/p"]

NextTabs ==
  \/ TickTabs
  \/ \E t \in TabIds : \E f \in FrameIds : webNavigation(t, f, TabUrl)
  \/ \E t \in TabIds : tabsOnUpdated(t, TabUrl)
  \/ \E t \in TabIds : tabsOnRemoved(t)
  \/ pruneTabs

SpecTabs == Init /\ [][NextTabs]_vars

(* the tab, the frames and the URLs of SpecPage: two origins, one URL that *)
(* is an origin only                                                       *)
PageTab == 1
PageUrls ==
  {[origin |-> "https://a.example", path |-> "/"],
   [origin |-> "https://a.example", path |-> "/p"],
   [origin |-> "https://b.example", path |-> "/p"]}

NextPage ==
  \/ TickTabs
  \/ \E f \in FrameIds : \E u \in PageUrls : webNavigation(PageTab, f, u)
  \/ \E u \in PageUrls : tabsOnUpdated(PageTab, u)
  \/ tabsOnRemoved(PageTab)
  \/ pruneTabs

SpecPage == Init /\ [][NextPage]_vars

(* ---- the dedup of the webRequest events ---- *)
(* One domain, two request ids, two request URLs on one page, a clock long *)
(* enough for an entry to leave the dedup window and then to be collected. *)
CommitDedup(result) ==
  \E st \in {result} :
    /\ CommitPipeline(st)
    /\ hostSeen' = st.hostSeen
    /\ seenRequestIds' = st.seenRequestIds
    /\ UNCHANGED << dirty, persistTimers, persistTimer, persistScheduled,
                    persistInFlight, persistPending, writes, stored,
                    initLoading >>
    /\ UNCHANGED << historyVars, trackerVars, evictVars >>

TickDedup ==
  /\ clock < MaxTimeDedup
  /\ clock' = clock + 1
  /\ UNCHANGED << domainStatus, availableList, hasNew, queue, queued, active,
                  inflight, inflightByDomain, lastQueued, itemToHost, attempts,
                  drainTimers, contexts, findingContexts, sharedRefs >>
  /\ UNCHANGED << persistVars, restVars >>

RequestIds == {"17", "18"}
DedupDomain == "a.test"
DedupUrls == {"https://a.test/x", "https://a.test/y"}
DedupPage == "https://site.test/"

onBeforeRequestEvent(requestId, requestUrl, bump) ==
  /\ requestId \in RequestIds \cup {NoRequestId}
  /\ CommitDedup(onBeforeRequestDedup(S, requestId, DedupDomain,
                                      HostOf(DedupDomain), DedupPage,
                                      requestUrl, bump))

onErrorOccurredEvent(requestId, requestUrl) ==
  /\ requestId \in RequestIds \cup {NoRequestId}
  /\ CommitDedup(onErrorOccurredDedup(S, requestId, DedupDomain,
                                      HostOf(DedupDomain), DedupPage,
                                      requestUrl))

(* persist()'s prune *)
pruneDedup ==
  /\ TRUE
  /\ CommitDedup(prune(S))

CheckAnsweredDedup(i) ==
  /\ attempts[DedupDomain][i].pc = "rdap"
  /\ \E resp \in {Http200, Http404} :
       CommitDedup(checkRegistrableAfterRdap(S, DedupDomain, i, resp))

NextDedup ==
  \/ TickDedup
  \/ \E requestId \in RequestIds \cup {NoRequestId} :
       \E requestUrl \in DedupUrls : \E bump \in BOOLEAN :
         onBeforeRequestEvent(requestId, requestUrl, bump)
  \/ \E requestId \in RequestIds \cup {NoRequestId} :
       \E requestUrl \in DedupUrls : onErrorOccurredEvent(requestId, requestUrl)
  \/ \E i \in 1..Len(attempts[DedupDomain]) : CheckAnsweredDedup(i)
  \/ pruneDedup

SpecDedup == Init /\ [][NextDedup]_vars

(* ---- the eviction of records and hosts ---- *)
(* Three domains and their hosts, one more than the ceilings hold.         *)
CommitEvict(result) ==
  \E st \in {result} :
    /\ CommitPipeline(st)
    /\ hostSeen' = st.hostSeen
    /\ recordTs' = st.recordTs
    /\ hostSeenTs' = st.hostSeenTs
    /\ UNCHANGED << dirty, persistTimers, persistTimer, persistScheduled,
                    persistInFlight, persistPending, writes, stored,
                    initLoading >>
    /\ UNCHANGED << historyVars, trackerVars, dedupVars >>

TickEvict ==
  /\ clock < MaxTimeEvict
  /\ clock' = clock + 1
  /\ UNCHANGED << domainStatus, availableList, hasNew, queue, queued, active,
                  inflight, inflightByDomain, lastQueued, itemToHost, attempts,
                  drainTimers, contexts, findingContexts, sharedRefs >>
  /\ UNCHANGED << persistVars, restVars >>

EvictUrl == "u1"

onBeforeRequestEvict(d) ==
  /\ d \in AllDomains
  /\ CommitEvict(onBeforeRequestListener(S, d, HostOf(d), NoUrl, EvictUrl, TRUE))

(* persist()'s prune *)
pruneEvict ==
  /\ TRUE
  /\ CommitEvict(prune(S))

NextEvict ==
  \/ TickEvict
  \/ \E d \in AllDomains : onBeforeRequestEvict(d)
  \/ pruneEvict

SpecEvict == Init /\ [][NextEvict]_vars

(***************************************************************************)
(* Properties.  A property about what a handler does is stated on the      *)
(* handler itself: in every reachable state, for every input the handler   *)
(* can be given there, the state it returns is as stated.                  *)
(***************************************************************************)

Attempts(d) == 1..Len(attempts[d])

Admissible(d) ==
  /\ d \notin active
  /\ d \notin inflightByDomain
  /\ d \notin queued
  /\ attempts[d] = << >>

InWindow(d) ==
  Has(lastQueued, d) /\ clock - lastQueued[d] < ENQUEUE_TTL_MS

StatusOf(st, d) ==
  IF Has(st.domainStatus, d) THEN st.domainStatus[d].status ELSE "none"

DohFailed == dnsFallbackResult(dnsCheckOne([ok |-> FALSE], clock))

DohAnswered(json) ==
  dnsFallbackResult(dnsCheckOne([ok |-> TRUE, json |-> json], clock))

(* the handler's outputs are not part of the program's state *)
Quiet(st) == [st EXCEPT !.calls = << >>, !.applied = << >>]

(* C1: at any moment at most one resolution attempt of a registrable       *)
(* domain is in flight, whatever events, messages and completions came     *)
(* before.                                                                 *)
C1_OneAttemptPerDomain ==
  \A d \in AllDomains : Len(attempts[d]) <= 1

(* clear-cache left an attempt running, forgetting that its domain is     *)
(* active, and an event for the domain has come since without starting a   *)
(* second attempt                                                          *)
C1_Witness ==
  \E d \in AllDomains :
    /\ Len(attempts[d]) = 1
    /\ attempts[d][1].pc = "doh"
    /\ d \notin active
    /\ StatusOf(S, d) = "pending"
    /\ ~Has(lastQueued, d)

(* what a handler's run wrote that makes d unregistered or a finding *)
YieldsUnregistered(st, d) ==
  \/ \E k \in 1..Len(st.applied) : st.applied[k].result.status = "unregistered"
  \/ StatusOf(st, d) = "unregistered" /\ StatusOf(S, d) # "unregistered"
  \/ FindingIndex(st.availableList, d) > 0 /\ FindingIndex(availableList, d) = 0

(* C2: a domain becomes unregistered (and a finding) only when the         *)
(* registry answered 404 after a redirect off the aggregator or the NS     *)
(* query answered NXDOMAIN; a registry answer of any other kind, a         *)
(* transport failure of every lookup, an exception, and every event or     *)
(* message handler never make it unregistered.                             *)
C2_UnregisteredOnlyFrom404OrNxdomain ==
  \A d \in AllDomains :
    /\ \A i \in Attempts(d) :
         /\ attempts[d][i].pc = "rdap" =>
              \A resp \in HttpResponses \cup {RdapTransportFailure} :
                YieldsUnregistered(checkRegistrableAfterRdap(S, d, i, resp), d)
                  => (resp.status = 404 /\ resp.finalUrl # AggregatorUrl)
         /\ attempts[d][i].pc = "doh" =>
              /\ \A json \in DohJson :
                   YieldsUnregistered(
                     checkRegistrableAfterDns(S, d, i, DohAnswered(json)), d)
                     => json.Status = 3
              /\ ~YieldsUnregistered(
                   checkRegistrableAfterDns(S, d, i, DohFailed), d)
         /\ ~YieldsUnregistered(Settle(S, d, i), d)
    /\ ~YieldsUnregistered(onBeforeRequestHandler(S, d, HostOf(d)), d)
    /\ ~YieldsUnregistered(recheckDomainHandler(S, d), d)
    /\ ~YieldsUnregistered(processQueue(S), d)

(* a domain that NXDOMAIN made unregistered and a finding *)
C2_Witness ==
  \E d \in AllDomains :
    /\ StatusOf(S, d) = "unregistered"
    /\ domainStatus[d].method = "dns"
    /\ FindingIndex(availableList, d) > 0

RECURSIVE Waiters(_)
Waiters(seq) ==
  IF seq = << >> THEN 0 ELSE Head(seq).waiters + Waiters(Tail(seq))

RECURSIVE RunningOver(_)
RunningOver(ds) ==
  IF ds = {} THEN 0
  ELSE LET d == CHOOSE x \in ds : TRUE
       IN Waiters(attempts[d]) + RunningOver(ds \ {d})

(* processQueue invocations suspended in `await checkRegistrable(item)` *)
Running == RunningOver(AllDomains)

(* C3: the number of resolutions running at once never exceeds             *)
(* MAX_CONCURRENCY, whatever the interleaving of network events,           *)
(* completions, exceptions, timer callbacks, recheck-domain and            *)
(* clear-cache.                                                            *)
C3_ConcurrencyCeiling ==
  /\ Running <= MAX_CONCURRENCY
  /\ inflight <= MAX_CONCURRENCY

(* every slot taken, a domain waiting, after a clear-cache emptied active *)
C3_Witness ==
  /\ Running = MAX_CONCURRENCY
  /\ queue # << >>
  /\ Cardinality(active) < MAX_CONCURRENCY

FinalFresh(d) ==
  /\ Has(domainStatus, d)
  /\ domainStatus[d].status \in {"registered", "unregistered", "unknown"}
  /\ ~(/\ domainStatus[d].method = "dns"
       /\ Has(domainStatus[d], "softUntil")
       /\ clock > domainStatus[d].softUntil)

(* C5: ensureEnqueued on a domain whose record is final and whose soft     *)
(* expiry, if it has one, has not passed changes nothing: queue, queued,   *)
(* active, lastQueued and itemToHost stay as they are and no query is      *)
(* sent.                                                                   *)
C5_FinalRecordNotEnqueued ==
  \A d \in AllDomains :
    FinalFresh(d) => ensureEnqueued(S, d, HostOf(d)) = S

(* a soft verdict at the instant of its expiry, nothing else in the way *)
C5_Witness ==
  \E d \in AllDomains :
    /\ FinalFresh(d)
    /\ Has(domainStatus[d], "softUntil")
    /\ clock = domainStatus[d].softUntil
    /\ ~InWindow(d)
    /\ Admissible(d)

InQueue(d) == d \in Elems(queue)

(* what clear-cache leaves behind *)
Cleared ==
  /\ queue = << >>
  /\ queued = {}
  /\ active = {}
  /\ domainStatus = EmptyMap
  /\ lastQueued = EmptyMap

(* C4 as claimed: every domain admitted to the queue is eventually         *)
(* dispatched, when every resolution attempt terminates.                   *)
C4_EveryQueuedDomainDispatched ==
  \A d \in AllDomains : InQueue(d) ~> (d \in active)

(* C4: when every resolution attempt terminates, every domain admitted to  *)
(* the queue is eventually dispatched unless clear-cache empties the queue *)
(* first, a domain leaves the queue in no other way, and the queue         *)
(* eventually becomes empty; an attempt that ends in an exception releases *)
(* its slot and the head of the queue is dispatched in its place.          *)
C4_QueueDrains ==
  /\ \A d \in AllDomains : InQueue(d) ~> (d \in active \/ Cleared)
  /\ (queue # << >>) ~> (queue = << >>)
  /\ [][\A d \in AllDomains :
          (InQueue(d) /\ ~InQueue(d)') => (d \in active' \/ Cleared')]_vars
  /\ [](\A d \in AllDomains : \A i \in Attempts(d) :
          queue # << >> => Head(queue) \in Settle(S, d, i).active)

(* a worker that resumed with a domain waiting set a timer and dispatched  *)
(* the domain itself                                                       *)
C4_Witness ==
  /\ drainTimers > 0
  /\ queue = << >>
  /\ Cardinality(active) = MAX_CONCURRENCY
  /\ Running = MAX_CONCURRENCY

SoftExpired(d) ==
  /\ StatusOf(S, d) = "registered"
  /\ domainStatus[d].method = "dns"
  /\ Has(domainStatus[d], "softUntil")
  /\ clock > domainStatus[d].softUntil

(* d is submitted and stamped: it waits in the queue or its check started *)
Admitted(st, d) ==
  /\ Has(st.lastQueued, d)
  /\ st.lastQueued[d] = st.now
  /\ \/ d \in st.queued /\ d \in Elems(st.queue)
     \/ /\ d \in st.active
        /\ st.attempts[d] # << >>
        /\ \E k \in 1..Len(st.calls) :
             st.calls[k] = [query |-> "rdap", domain |-> d]

(* the handler neither submitted nor started anything *)
SameQueueing(st, s0) ==
  /\ st.queue = s0.queue
  /\ st.queued = s0.queued
  /\ st.active = s0.active
  /\ st.inflight = s0.inflight
  /\ st.attempts = s0.attempts
  /\ st.lastQueued = s0.lastQueued
  /\ st.itemToHost = s0.itemToHost
  /\ st.calls = s0.calls

(* C6: once the soft expiry of a registered-via-DNS record has passed, a   *)
(* network event admits its domain again, and the resolution that follows  *)
(* takes its verdict from a lookup made then (an answer of the registry,   *)
(* or an NS query it sends), never from the cached record.                 *)
C6_SoftExpiredVerdictFromFreshLookup ==
  \A d \in AllDomains :
    SoftExpired(d) =>
      /\ (Admissible(d) /\ ~InWindow(d)) =>
           Admitted(onBeforeRequestHandler(S, d, HostOf(d)), d)
      /\ \A i \in Attempts(d) :
           attempts[d][i].pc = "rdap" =>
             \A resp \in HttpResponses \cup {RdapTransportFailure} :
               LET st == checkRegistrableAfterRdap(S, d, i, resp)
               IN \/ /\ Len(st.applied) = 1
                     /\ st.applied[1].result.method = "rdap"
                  \/ /\ st.applied = << >>
                     /\ st.calls = << [query |-> "doh", domain |-> d] >>

ErrorRecord(d) == StatusOf(S, d) = "error"

C9_SoftFailLiftsThrottle ==
  \A d \in AllDomains : \A i \in Attempts(d) :
    attempts[d][i].pc = "doh" =>
      LET st == checkRegistrableAfterDns(S, d, i, DohFailed)
      IN /\ ~(d \in Elems(st.queue))
         /\ d \notin st.queued
         /\ d \notin st.active
         /\ d \notin st.inflightByDomain
         /\ st.attempts[d] = << >>
         /\ \A k \in 1..Len(st.calls) : st.calls[k].domain # d
         /\ Admitted(onBeforeRequestHandler(Quiet(st), d, HostOf(d)), d)

(* a pending record that nothing resolves and nothing throttles *)
C9_Witness ==
  \E d \in AllDomains :
    /\ StatusOf(S, d) = "pending"
    /\ ~Has(lastQueued, d)
    /\ Admissible(d)

(* the ways from the admission of d to a second event for d, all within    *)
(* one instant: nothing in between, the registry and the NS query both     *)
(* failing, clear-cache                                                    *)
AfterAdmission(s1, d) ==
  {s1, clearCacheHandler(s1)} \cup
  (IF s1.attempts[d] # << >>
   THEN {checkRegistrableAfterDns(
           checkRegistrableAfterRdap(s1, d, 1, RdapTransportFailure),
           d, 1, DohFailed)}
   ELSE {})

UnregisteredVerdicts ==
  {[status |-> "unregistered", method |-> "rdap", http |-> 404,
    url |-> RegistryUrl],
   [status |-> "unregistered", method |-> "dns", http |-> 0, url |-> ""]}

FindingDomains(list) == {list[k].domain : k \in 1..Len(list)}

(* C18: an unregistered verdict for D creates D's findings entry and sets  *)
(* the new-finding flag when D has no entry; when D has one, no entry is   *)
(* added and the flag stays as it was.  A set flag is cleared only by      *)
(* ackNew, clearAvailable or clearCache.                                   *)
C18_NewFindingFlag ==
  /\ [](\A d \in AllDomains : \A v \in UnregisteredVerdicts :
          LET st == propagateStatus(S, d, v)
          IN IF FindingIndex(availableList, d) = 0
             THEN /\ Len(st.availableList) = Len(availableList) + 1
                  /\ FindingIndex(st.availableList, d) = Len(st.availableList)
                  /\ st.hasNew
             ELSE /\ Len(st.availableList) = Len(availableList)
                  /\ FindingDomains(st.availableList) = FindingDomains(availableList)
                  /\ st.hasNew = hasNew)
  /\ [][(hasNew /\ ~hasNew') => (ackNew \/ clearAvailable \/ clearCache)]_vars

(* a listed, acknowledged finding whose domain is being resolved again,    *)
(* its NS query under way                                                  *)
C18_Witness ==
  \E d \in AllDomains :
    /\ FindingIndex(availableList, d) > 0
    /\ ~hasNew
    /\ Len(attempts[d]) = 1
    /\ attempts[d][1].pc = "doh"

(* C19: the findings list never holds two entries of one registrable       *)
(* domain.                                                                 *)
C19_OneFindingPerDomain ==
  \A i \in 1..Len(availableList) : \A j \in 1..Len(availableList) :
    availableList[i].domain = availableList[j].domain => i = j

(* both domains are findings and one of them, its record deleted by        *)
(* recheck-domain, is being resolved again                                 *)
C19_Witness ==
  /\ Len(availableList) = 2
  /\ \E k \in 1..2 :
       /\ StatusOf(S, availableList[k].domain) = "none"
       /\ Len(attempts[availableList[k].domain]) = 1

(* C20: every domain in the findings list has a cache record whose status  *)
(* is unregistered.                                                        *)
C20_FindingsAreUnregisteredRecords ==
  \A k \in 1..Len(availableList) :
    StatusOf(S, availableList[k].domain) = "unregistered"

(* the verdicts checkRegistrable can apply *)
Verdicts ==
  UnregisteredVerdicts \cup
  {[status |-> "registered", method |-> "rdap", http |-> 200, url |-> RegistryUrl],
   [status |-> "error", method |-> "rdap", http |-> 500, url |-> RegistryUrl],
   [status |-> "registered", method |-> "dns", http |-> 0, url |-> ""],
   [status |-> "registered", method |-> "dns", http |-> 0, url |-> "",
    softUntil |-> clock + DNS_REGISTERED_SOFT_TTL_MS]}

(* C15: applying a verdict to D replaces the status, method, HTTP status,  *)
(* evidence URL and soft expiry of D's record by the verdict's, and every  *)
(* page URL and request URL of the record before the verdict, those        *)
(* recorded while the resolution was in flight included, is in the record  *)
(* after it (a list within its cap loses nothing).                         *)
C15_VerdictKeepsEvidence ==
  \A d \in AllDomains : \A v \in Verdicts :
    LET st == propagateStatus(S, d, v)
    IN /\ st.domainStatus[d] = v
       /\ Has(domainStatus, d) =>
            \A kind \in Kinds :
              Len(contexts[d][kind]) <= CapOf(kind) =>
                UrlsOf(contexts[d][kind]) \subseteq UrlsOf(st.contexts[d][kind])

(* a resolution is in flight and the record holds two request URLs, one of *)
(* them recorded after the resolution was admitted                         *)
C15_Witness ==
  \E d \in AllDomains :
    /\ Len(attempts[d]) = 1
    /\ Has(domainStatus, d)
    /\ Has(lastQueued, d)
    /\ Len(contexts[d].requests) = 2
    /\ \E i \in 1..2 : contexts[d].requests[i].ts > lastQueued[d]

NoDuplicateUrls(list) ==
  \A i \in 1..Len(list) : \A j \in 1..Len(list) :
    list[i].url = list[j].url => i = j

(* one list after its add function recorded url *)
AfterAdd(d, kind, url) == addContext(S, kind, d, url).contexts[d][kind]

(* C16: in every reachable state the pages list and the requests list of   *)
(* every cache record and of every findings entry hold at most the cap of  *)
(* entries and no URL twice; recording a URL that is in the list sets its  *)
(* timestamp and adds no entry.                                            *)
C16_ListsCappedNoDuplicates ==
  \A d \in AllDomains : \A kind \in Kinds :
    /\ Len(contexts[d][kind]) <= CapOf(kind)
    /\ NoDuplicateUrls(contexts[d][kind])
    /\ Len(findingContexts[d][kind]) <= CapOf(kind)
    /\ NoDuplicateUrls(findingContexts[d][kind])
    /\ \A u \in UrlsOf(contexts[d][kind]) :
         /\ Len(AfterAdd(d, kind, u)) = Len(contexts[d][kind])
         /\ AfterAdd(d, kind, u)[UrlIndex(contexts[d][kind], u)] =
              [url |-> u, ts |-> clock]

(* the entries of list whose URL is not in the list `after` *)
Dropped(list, after) ==
  {list[i] : i \in {j \in 1..Len(list) : list[j].url \notin UrlsOf(after)}}

(* C17: recording a URL never lowers the number of distinct URLs of the    *)
(* list, the list holds the URL immediately afterwards, and an entry that  *)
(* was dropped to keep the cap has the oldest timestamp: none that was     *)
(* kept is older.                                                          *)
C17_AddKeepsNewestUrls ==
  \A d \in AllDomains : \A kind \in Kinds : \A u \in Urls :
    LET before == contexts[d][kind]
        after == AfterAdd(d, kind, u)
    IN /\ Cardinality(UrlsOf(after)) >= Cardinality(UrlsOf(before))
       /\ u \in UrlsOf(after)
       /\ \A e \in Dropped(Append(before, [url |-> u, ts |-> clock]), after) :
            \A i \in 1..Len(after) : e.ts <= after[i].ts

(* the keys of storage.local that hold the state of the model *)
StoredKeys == {"hostSeen", "domainStatus", "availableList"}

(* what init makes of a key of storage: an absent key loads as empty *)
LoadedValue(m, key) ==
  IF Has(m, key) THEN m[key]
  ELSE IF key = "domainStatus"
  THEN [records |-> EmptyMap, contexts |-> [d \in AllDomains |-> NoContexts]]
  ELSE IF key = "availableList"
  THEN [list |-> << >>, contexts |-> [d \in AllDomains |-> NoContexts]]
  ELSE {}

(* no timer scheduled, no write in flight, no trailing write pending *)
PersistQuiescent ==
  /\ persistTimers = 0
  /\ ~persistInFlight
  /\ ~persistPending
  /\ writes = << >>

(* C13: whenever persistence is quiescent, storage holds the domain cache, *)
(* the hosts-seen tally and the findings list as they are in memory: no    *)
(* mutation, made during a write or not, is left unwritten.                *)
C13_QuiescentStorageIsMemory ==
  PersistQuiescent =>
    \A key \in StoredKeys : LoadedValue(stored, key) = StoredValue(S, key)

(* The write that triggerPersist started is the next to complete, and       *)
(* persistSoon has run since it started: triggerPersist resets             *)
(* persistScheduled when it starts the write and only persistSoon sets it  *)
(* while the write is in flight.                                           *)
RequestedDuringWrite ==
  /\ writes # << >>
  /\ Head(writes).then = "triggerPersist"
  /\ persistInFlight
  /\ persistScheduled

(* C12: when persistence was requested while a write was in flight, the    *)
(* completion of that write leaves exactly one run of triggerPersist to    *)
(* come, the trailing write: one timer is pending, not none and not two.   *)
C12_OneTrailingWrite ==
  RequestedDuringWrite => storageSetCompleted(S).persistTimers = 1

(* the state in memory after persist() has run and its write, with every  *)
(* write before it, has completed                                          *)
Persisted == persist(S, "persist")

(* the state after the process was then started again and init has loaded *)
Reloaded == init(scriptStarted(Persisted, Len(Persisted.writes)))

(* C14: persisting and then reloading gives back the domain cache and the  *)
(* findings list that were in memory: the same domains with the same       *)
(* records, the same findings, and the same pages and requests for every   *)
(* record and every finding.                                               *)
C14_RoundTrip ==
  /\ Reloaded.domainStatus = Persisted.domainStatus
  /\ Reloaded.contexts = Persisted.contexts
  /\ Reloaded.availableList = Persisted.availableList
  /\ Reloaded.findingContexts = Persisted.findingContexts

(* d is queued or being resolved *)
Outstanding(d) == d \in queued \/ d \in active

(* C11: a domain that is queued or being resolved gets its verdict, also   *)
(* when the process is killed and started again on the way (the registry   *)
(* of LiveRestart answers every query, so no resolution ends otherwise),   *)
(* provided the process is not killed for ever again.                      *)
C11_RestartLosesNoWork ==
  \A d \in PersistDomains :
    <>[](~initLoading) =>
      [](Outstanding(d) => <>(StatusOf(S, d) \in {"registered", "unregistered"}))

ListedDomains(list) == {list[k].domain : k \in 1..Len(list)}

Resubmitted(st, d) ==
  d \in st.queued \/ d \in st.active \/ st.attempts[d] # << >>

AtRest(d) ==
  /\ StatusOf(S, d) = "unregistered"
  /\ ~Resubmitted(S, d)

ClearKeepsCache ==
  LET st == clearAvailableHandler(S)
  IN /\ st.domainStatus = domainStatus
     /\ st.contexts = contexts
     /\ st.lastQueued = lastQueued
     /\ st.availableList = << >>

(* C21: clear-findings changes no cache record.  A domain whose finding    *)
(* was cleared and whose record is unregistered, with no resolution of it  *)
(* queued or running, stays so and stays off the findings list through     *)
(* every step but a recheck-domain of it and a clear-cache.                *)
C21_ClearedStaysOffList ==
  /\ []ClearKeepsCache
  /\ [][\A d \in clearedFindings :
         (AtRest(d) /\ d \notin ListedDomains(availableList)) =>
           \/ recheckDomain(d)
           \/ clearCacheNoted
           \/ /\ AtRest(d)'
              /\ domainStatus'[d] = domainStatus[d]
              /\ d \notin ListedDomains(availableList')]_vars

(* C21 as stated: a domain whose finding was cleared is not added to the   *)
(* findings list with the new-finding flag set, unless a clear-cache came  *)
(* in between.                                                             *)
C21_ClearedNeverResurfaces ==
  [][\A d \in clearedFindings :
       clearCacheNoted
       \/ ~(/\ d \notin ListedDomains(availableList)
            /\ d \in ListedDomains(availableList')
            /\ hasNew')]_vars

(* a cleared finding at rest that the throttle would not hold back *)
C21_Witness ==
  \E d \in clearedFindings :
    /\ AtRest(d)
    /\ d \notin ListedDomains(availableList)
    /\ ~InWindow(d)
    /\ onBeforeRequestHandler(S, d, HostOf(d)).queue = queue

RecordHolds(d, kind, u) == u \in UrlsOf(contexts[d][kind])
FindingHolds(d, kind, u) == u \in UrlsOf(findingContexts[d][kind])

(* nothing is queued, running, scheduled or being written or loaded *)
NothingPending ==
  /\ queue = << >>
  /\ active = {}
  /\ \A d \in AllDomains : attempts[d] = << >>
  /\ drainTimers = 0
  /\ persistTimers = 0
  /\ writes = << >>
  /\ ~initLoading

(* C22: a URL recorded for a domain that has a findings entry is           *)
(* eventually contained in the entry, also after the state was persisted   *)
(* and loaded again: once nothing is pending any more, the entry holds     *)
(* every URL that the record of the domain holds.                          *)
C22_EvidenceReachesFinding ==
  NothingPending =>
    \A d \in PersistDomains : \A kind \in Kinds : \A u \in PersistUrls :
      (d \in ListedDomains(availableList) /\ RecordHolds(d, kind, u))
        => FindingHolds(d, kind, u)

NoDohQuery(st) == \A k \in 1..Len(st.calls) : st.calls[k].query # "doh"

(* C23: when the registry answers the lookup of a domain with HTTP 200,    *)
(* the record of the domain becomes registered with method rdap, no        *)
(* name-resolution query is sent, and the domain is not on the findings    *)
(* list.                                                                   *)
C23_Registry200 ==
  \A d \in AllDomains : \A i \in Attempts(d) :
    attempts[d][i].pc = "rdap" =>
      LET st == checkRegistrableAfterRdap(S, d, i, Http200)
      IN /\ StatusOf(st, d) = "registered"
         /\ st.domainStatus[d].method = "rdap"
         /\ st.domainStatus[d].http = 200
         /\ NoDohQuery(st)
         /\ d \notin ListedDomains(st.availableList)

HasNsAnswer(json) == \E k \in 1..Len(json.Answer) : json.Answer[k] = 2
HasSoaAuthority(json) == \E k \in 1..Len(json.Authority) : json.Authority[k] = 6

(* the verdict that the resolution rules give for a reply *)
RuleFor(json) ==
  IF json.Status = 3 THEN "unregistered"
  ELSE IF json.Status = 0 /\ (HasNsAnswer(json) \/ HasSoaAuthority(json))
  THEN "registered"
  ELSE "soft"

(* C24: the name-resolution fallback gives, for every outcome: NXDOMAIN -> *)
(* unregistered; success with an NS answer or an SOA authority record ->   *)
(* registered without soft expiry; any other reply -> registered with a    *)
(* soft expiry in the future; failure of both providers -> unknown, which  *)
(* is not written to the cache.  The secondary provider is queried only    *)
(* after the primary failed.                                               *)
C24_ResolverVerdicts ==
  \A primary \in ProviderOutcomes : \A secondary \in ProviderOutcomes :
    LET out == doh(primary, secondary)
        res == dnsCheckOneVia(primary, secondary, clock)
    IN /\ ("cloudflare-dns.com" \in Elems(out.queried)) => ~primary.ok
       /\ out.ok => out.json = (IF primary.ok THEN primary.json ELSE secondary.json)
       /\ out.ok =>
            CASE RuleFor(out.json) = "unregistered" ->
                   res.status = "unregistered" /\ ~Has(res, "softUntil")
              [] RuleFor(out.json) = "registered" ->
                   res.status = "registered" /\ ~Has(res, "softUntil")
              [] OTHER ->
                   /\ res.status = "registered"
                   /\ Has(res, "softUntil")
                   /\ res.softUntil > clock
       /\ ~out.ok =>
            /\ res.status = "unknown"
            /\ \A d \in AllDomains : \A i \in Attempts(d) :
                 attempts[d][i].pc = "doh" =>
                   checkRegistrableAfterDns(S, d, i, dnsFallbackResult(res)).domainStatus
                     = domainStatus


(* ---- the context tracker ---- *)
(* what the tracker knows of one tab: its top-level URL, its history and   *)
(* the history of each of its frames                                       *)
TabView(st, t) ==
  [top |-> IF Has(st.tabTopUrl, t) THEN << st.tabTopUrl[t] >> ELSE << >>,
   history |-> HistoryOf(st.tabHistory, t),
   frames |-> [f \in FrameIds |-> HistoryOf(st.frameHistory, frameKey(t, f))]]

NoTabView ==
  [top |-> << >>, history |-> << >>, frames |-> [f \in FrameIds |-> << >>]]

(* C25: closing a tab removes its top-level URL, its tab history and every *)
(* frame history keyed to its id, and leaves the top-level URL, the tab    *)
(* history and the frame histories of every other tab id as they were,     *)
(* tab ids 1 and 11 included.                                              *)
C25_TabClosed ==
  \A t \in TabIds :
    LET st == tabsOnRemovedHandler(S, t)
    IN /\ TabView(st, t) = NoTabView
       /\ t \notin DOMAIN st.tabTopUrl
       /\ t \notin DOMAIN st.tabHistory
       /\ \A f \in FrameIds : frameKey(t, f) \notin DOMAIN st.frameHistory
       /\ \A u \in TabIds \ {t} : TabView(st, u) = TabView(S, u)
       /\ DOMAIN st.tabTopUrl = DOMAIN S.tabTopUrl \ {t}
       /\ DOMAIN st.tabHistory = DOMAIN S.tabHistory \ {t}
       /\ DOMAIN st.frameHistory =
            DOMAIN S.frameHistory \ {frameKey(t, f) : f \in FrameIds}

(* tabs 1 and 11 both have a top-level URL and the histories of two        *)
(* frames; closing tab 1 leaves those of tab 11 and none of tab 1          *)
C25_Witness ==
  /\ \A t \in TabIds :
       /\ Has(tabTopUrl, t)
       /\ HistoryOf(tabHistory, t) # << >>
       /\ \A f \in FrameIds : HistoryOf(frameHistory, frameKey(t, f)) # << >>
  /\ TabView(tabsOnRemovedHandler(S, 1), 1) = NoTabView
  /\ TabView(tabsOnRemovedHandler(S, 1), 11) = TabView(S, 11)
  /\ TabView(S, 11) # NoTabView

(* the fields of a request event that name its page *)
DetailUrls ==
  {[origin |-> "https://a.example", path |-> "/"],
   [origin |-> "https://b.example", path |-> "/p"]}

PageDetails ==
  [documentUrl : DetailUrls \cup {NoPage},
   originUrl : DetailUrls \cup {NoPage},
   initiator : DetailUrls \cup {NoPage}]

NewestOf(arr) == IF arr = << >> THEN NoPage ELSE arr[Len(arr)].url

(* the six sources of a page URL in the order of the priority, each with   *)
(* what it holds for the event (NoPage when it is empty)                   *)
PageSources(details, t, f) ==
  << Page(IF IsNumber(t) /\ IsNumber(f)
          THEN NewestOf(HistoryOf(frameHistory, frameKey(t, f)))
          ELSE NoPage, "frameHistory"),
     Page(details.documentUrl, "documentUrl"),
     Page(details.originUrl, "originUrl"),
     Page(details.initiator, "initiator"),
     Page(IF IsNumber(t) /\ Has(tabTopUrl, t) THEN tabTopUrl[t] ELSE NoPage,
          "tabTopUrl"),
     Page(IF IsNumber(t) THEN NewestOf(HistoryOf(tabHistory, t)) ELSE NoPage,
          "tabHistory") >>

FirstSource(srcs) ==
  IF \A i \in 1..Len(srcs) : srcs[i].url = NoPage
  THEN Page(NoPage, "none")
  ELSE srcs[CHOOSE i \in 1..Len(srcs) :
              /\ srcs[i].url # NoPage
              /\ \A j \in 1..(i - 1) : srcs[j].url = NoPage]

SameOriginEntries(arr, url) ==
  {i \in 1..Len(arr) : arr[i].url.origin = url.origin}

(* C27: a candidate that is an origin only is replaced only by an entry of *)
(* the frame history, else of the tab history, that shares its origin, and *)
(* is returned unchanged when neither history has such an entry.           *)
C27_UpgradeSameOrigin ==
  \A details \in PageDetails : \A f \in FrameIds \cup {NoId} :
    LET c == pageCandidate(S, details, PageTab, f)
        r == pageFromVerbose(S, details, PageTab, f)
        fh == IF IsNumber(f)
              THEN HistoryOf(frameHistory, frameKey(PageTab, f))
              ELSE << >>
        th == HistoryOf(tabHistory, PageTab)
    IN onlyOrigin(c.url) =>
         /\ r.url.origin = c.url.origin
         /\ (SameOriginEntries(fh, c.url) = {} /\ SameOriginEntries(th, c.url) = {})
              => r = c
         /\ SameOriginEntries(fh, c.url) # {}
              => r.source = "frameHistory" /\
                 \E i \in SameOriginEntries(fh, c.url) : r.url = fh[i].url

(* the part of C27 that the code keeps: with an entry of the same origin   *)
(* the newest such entry of the frame history, else of the tab history,    *)
(* replaces the candidate                                                  *)
C27_UpgradeWhenSameOriginExists ==
  \A details \in PageDetails : \A f \in FrameIds \cup {NoId} :
    LET c == pageCandidate(S, details, PageTab, f)
        r == pageFromVerbose(S, details, PageTab, f)
        fh == IF IsNumber(f)
              THEN HistoryOf(frameHistory, frameKey(PageTab, f))
              ELSE << >>
        th == HistoryOf(tabHistory, PageTab)
    IN onlyOrigin(c.url) =>
         /\ SameOriginEntries(fh, c.url) # {}
              => r.source = "frameHistory" /\
                 \E i \in SameOriginEntries(fh, c.url) : r.url = fh[i].url
         /\ (SameOriginEntries(fh, c.url) = {} /\ fh = << >>
               /\ SameOriginEntries(th, c.url) # {})
              => r.source = "tabHistory" /\
                 \E i \in SameOriginEntries(th, c.url) : r.url = th[i].url

(* ---- the dedup window ---- *)
(* the request id was let in less than REQ_TTL_MS ago *)
SeenInWindow(requestId) ==
  /\ Has(seenRequestIds, requestId)
  /\ clock - seenRequestIds[requestId] < REQ_TTL_MS

(* what a handler may change of the cache, the evidence, the hosts seen,   *)
(* the queue and the throttle                                              *)
DedupView(st) ==
  [domainStatus |-> st.domainStatus, contexts |-> st.contexts,
   findingContexts |-> st.findingContexts, availableList |-> st.availableList,
   hostSeen |-> st.hostSeen, queue |-> st.queue, queued |-> st.queued,
   active |-> st.active, inflight |-> st.inflight, attempts |-> st.attempts,
   lastQueued |-> st.lastQueued, itemToHost |-> st.itemToHost]

(* C28: a request or error event whose requestId was let in within the     *)
(* dedup window changes nothing (no record, evidence list, hosts-seen      *)
(* entry, queue or throttle entry, and not the entry of the requestId);    *)
(* one whose requestId is not in the window is handled as an event with no *)
(* requestId is, and its time is noted.                                    *)
C28_DedupWindow ==
  \A requestId \in RequestIds : \A url \in DedupUrls : \A bump \in BOOLEAN :
    LET host == HostOf(DedupDomain)
        req == onBeforeRequestDedup(S, requestId, DedupDomain, host,
                                    DedupPage, url, bump)
        err == onErrorOccurredDedup(S, requestId, DedupDomain, host,
                                    DedupPage, url)
        reqPlain == onBeforeRequestDedup(S, NoRequestId, DedupDomain, host,
                                         DedupPage, url, bump)
        errPlain == onErrorOccurredDedup(S, NoRequestId, DedupDomain, host,
                                         DedupPage, url)
    IN IF SeenInWindow(requestId)
       THEN req = S /\ err = S
       ELSE /\ req = [reqPlain EXCEPT
                        !.seenRequestIds = Put(seenRequestIds, requestId, clock)]
            /\ err = [errPlain EXCEPT
                        !.seenRequestIds = Put(seenRequestIds, requestId, clock)]
            /\ reqPlain.seenRequestIds = seenRequestIds
            /\ errPlain.seenRequestIds = seenRequestIds

(* request 17 was let in at this clock value and request 18 one window ago *)
(* or earlier; an error event for a URL with no request id would change    *)
(* the cache, the evidence, the queue or the throttle; the event of 17     *)
(* changes nothing and the event of 18 does what the event with no request *)
(* id does                                                                 *)
C28_Witness ==
  \E url \in DedupUrls :
    LET host == HostOf(DedupDomain)
        plain == onErrorOccurredDedup(S, NoRequestId, DedupDomain, host,
                                      DedupPage, url)
    IN /\ SeenInWindow("17")
       /\ Has(seenRequestIds, "18") /\ ~SeenInWindow("18")
       /\ DedupView(plain) # DedupView(S)
       /\ onErrorOccurredDedup(S, "17", DedupDomain, host, DedupPage, url) = S
       /\ DedupView(onErrorOccurredDedup(S, "18", DedupDomain, host, DedupPage,
                                         url)) = DedupView(plain)

(* ---- recheck-domain ---- *)
RunningIn(st) ==
  Cardinality({d \in AllDomains : Len(st.attempts[d]) > 0})

(* C29: recheck-domain(D) deletes the record and the throttle entry of D   *)
(* and submits D as any event does: afterwards D is in the queue or a      *)
(* resolution of D is running, a throttle entry of D is that of this       *)
(* admission, no more than MAX_CONCURRENCY resolutions run, and D has one  *)
(* resolution at most, with no query sent for D while one is in flight.    *)
C29_Recheck ==
  \A d \in AllDomains :
    LET st == recheckDomainHandler(S, d)
    IN /\ ~Has(st.domainStatus, d)
       /\ Has(st.lastQueued, d) =>
            /\ st.lastQueued[d] = clock
            /\ d \notin Elems(queue) /\ d \notin active
       /\ d \in Elems(st.queue) \/ Len(st.attempts[d]) > 0
       /\ RunningIn(st) <= MAX_CONCURRENCY
       /\ st.inflight <= MAX_CONCURRENCY
       /\ Len(st.attempts[d]) <= 1
       /\ Len(attempts[d]) > 0 =>
            /\ st.attempts[d] = attempts[d]
            /\ st.calls = << >>
       /\ \A e \in AllDomains \ {d} :
            /\ st.attempts[e] = attempts[e]
            /\ Has(st.domainStatus, e) = Has(domainStatus, e)

(* D has a final record and a throttle entry of this clock value, every    *)
(* slot is taken by other domains: the recheck leaves D in the queue with  *)
(* no record; and another domain in flight is rechecked with no new query  *)
C29_Witness ==
  \E d \in AllDomains : \E e \in AllDomains \ {d} :
    /\ Has(domainStatus, d) /\ domainStatus[d].status = "registered"
    /\ Has(lastQueued, d) /\ lastQueued[d] = clock
    /\ Len(attempts[d]) = 0 /\ d \notin Elems(queue)
    /\ RunningIn(S) = MAX_CONCURRENCY
    /\ d \in Elems(recheckDomainHandler(S, d).queue)
    /\ ~Has(recheckDomainHandler(S, d).domainStatus, d)
    /\ Len(attempts[e]) = 1 /\ Has(domainStatus, e)
    /\ recheckDomainHandler(S, e).attempts = attempts
    /\ ~Has(recheckDomainHandler(S, e).domainStatus, e)

(* ---- the eviction ---- *)
TsOf(seq, k) == seq[KeyIndex(seq, k)].ts

(* the keys of an object before and after, the ts of each key before, the  *)
(* ceiling: no more keys than the ceiling are left, no more are removed    *)
(* than the excess, and no key removed is newer than a key left            *)
EvictedOldest(before, after, seq, max) ==
  LET removed == before \ after
      excess == IF Cardinality(before) > max THEN Cardinality(before) - max ELSE 0
  IN /\ after \subseteq before
     /\ Cardinality(after) <= max
     /\ Cardinality(removed) = excess
     /\ \A r \in removed : \A k \in after : TsOf(seq, r) <= TsOf(seq, k)

(* C30: after prune the cache holds MAX_DOMAINS records at most, the       *)
(* records removed are the ones of the smallest ts, as many as the cache   *)
(* was over the ceiling, and the records left are as they were; the same   *)
(* for hostSeen and MAX_HOSTS.                                             *)
C30_EvictsOldest ==
  LET st == prune(S)
  IN /\ TsKeys(recordTs) = DOMAIN domainStatus
     /\ TsKeys(hostSeenTs) = hostSeen
     /\ EvictedOldest(DOMAIN domainStatus, DOMAIN st.domainStatus, recordTs,
                      MAX_DOMAINS)
     /\ \A d \in DOMAIN st.domainStatus :
          /\ st.domainStatus[d] = domainStatus[d]
          /\ st.contexts[d] = contexts[d]
          /\ TsOf(st.recordTs, d) = TsOf(recordTs, d)
     /\ TsKeys(st.recordTs) = DOMAIN st.domainStatus
     /\ EvictedOldest(hostSeen, st.hostSeen, hostSeenTs, MAX_HOSTS)
     /\ TsKeys(st.hostSeenTs) = st.hostSeen
     /\ \A h \in st.hostSeen : TsOf(st.hostSeenTs, h) = TsOf(hostSeenTs, h)

(* three records of three different ts, the oldest of them not the first   *)
(* key: prune removes that one and its host, and leaves the other two      *)
C30_Witness ==
  /\ Len(recordTs) = 3
  /\ Len(hostSeenTs) = 3
  /\ \E d \in AllDomains :
       /\ recordTs[1].key # d
       /\ \A e \in AllDomains \ {d} : TsOf(recordTs, d) < TsOf(recordTs, e)
       /\ DOMAIN prune(S).domainStatus = AllDomains \ {d}
       /\ prune(S).hostSeen = {HostOf(e) : e \in AllDomains \ {d}}

(* ---- the histories after a record ---- *)
(* a history after the record of url at clock value t, and the history it  *)
(* was before: within the ceiling, nothing older than the TTL, ordered by  *)
(* ts, the URL recorded last, and what is left of the old entries is their *)
(* newest ones in their order                                              *)
HistoryRecorded(before, after, url, t) ==
  LET pushed == Append(before, [url |-> url, ts |-> t])
  IN /\ Len(after) >= 1
     /\ Len(after) <= TAB_HISTORY_MAX
     /\ \A i \in 1..Len(after) : after[i].ts >= t - TAB_HISTORY_TTL_MS
     /\ \A i \in 1..(Len(after) - 1) : after[i].ts <= after[i + 1].ts
     /\ after[Len(after)] = [url |-> url, ts |-> t]
     /\ after = SubSeq(pushed, Len(pushed) - Len(after) + 1, Len(pushed))
     /\ \A i \in 1..(Len(pushed) - Len(after)) :
          \/ pushed[i].ts < t - TAB_HISTORY_TTL_MS
          \/ Len(pushed) - i >= TAB_HISTORY_MAX

(* C31: after recordTabTop or recordFrameUrl the history of the tab or of  *)
(* the frame has TAB_HISTORY_MAX entries at most, no entry older than the  *)
(* TTL, its entries in the order of their ts and the URL just recorded as  *)
(* its last entry; the entries removed are the oldest ones, and every      *)
(* history of a reachable state is within the ceiling and ordered.         *)
C31_HistoryAfterRecord ==
  /\ \A u \in PageUrls :
       HistoryRecorded(HistoryOf(tabHistory, PageTab),
                       HistoryOf(recordTabTop(S, PageTab, u).tabHistory, PageTab),
                       u, clock)
  /\ \A f \in FrameIds : \A u \in PageUrls :
       HistoryRecorded(
         HistoryOf(frameHistory, frameKey(PageTab, f)),
         HistoryOf(recordFrameUrl(S, PageTab, f, u).frameHistory,
                   frameKey(PageTab, f)),
         u, clock)
  /\ \A arr \in {tabHistory[k] : k \in DOMAIN tabHistory}
                  \cup {frameHistory[k] : k \in DOMAIN frameHistory} :
       /\ Len(arr) <= TAB_HISTORY_MAX
       /\ \A i \in 1..(Len(arr) - 1) : arr[i].ts <= arr[i + 1].ts

(* the history of the tab is full and none of its entries has expired, the *)
(* history of a frame is full and its oldest entry has expired: a record   *)
(* removes the oldest entry of the first for the ceiling, and the expired  *)
(* entry of the second                                                     *)
C31_Witness ==
  \E u \in PageUrls : \E f \in FrameIds :
    LET tabs == HistoryOf(tabHistory, PageTab)
        frames == HistoryOf(frameHistory, frameKey(PageTab, f))
    IN /\ Len(tabs) = TAB_HISTORY_MAX
       /\ tabs[1].ts >= clock - TAB_HISTORY_TTL_MS
       /\ tabs[1].url # tabs[2].url
       /\ HistoryOf(recordTabTop(S, PageTab, u).tabHistory, PageTab)
            = << tabs[2], [url |-> u, ts |-> clock] >>
       /\ Len(frames) = TAB_HISTORY_MAX
       /\ frames[1].ts < clock - TAB_HISTORY_TTL_MS
       /\ frames[2].ts >= clock - TAB_HISTORY_TTL_MS
       /\ HistoryOf(recordFrameUrl(S, PageTab, f, u).frameHistory,
                    frameKey(PageTab, f))
            = << frames[2], [url |-> u, ts |-> clock] >>

(* ---- the pending record and the admission ---- *)
(* the record of d is created pending by the handler *)
CreatedPending(st, d) ==
  /\ ~Has(domainStatus, d)
  /\ Has(st.domainStatus, d)
  /\ st.domainStatus[d].status = "pending"

AdmittedIn(st, d) == d \in Elems(st.queue) \/ d \in st.active

(* C32: when the handler of a request or error event returns, a record it  *)
(* created with status pending is of a domain that is queued or active.    *)
C32_PendingAdmitted ==
  \A d \in AllDomains :
    LET st == onBeforeRequestHandler(S, d, HostOf(d))
    IN CreatedPending(st, d) => AdmittedIn(st, d)

(* the same with a check in flight for the domain counted as admitted: the *)
(* record created pending is of a domain that is queued, active or has a   *)
(* check running                                                           *)
C32_PendingHasCheck ==
  \A d \in AllDomains :
    LET st == onBeforeRequestHandler(S, d, HostOf(d))
    IN CreatedPending(st, d) =>
         AdmittedIn(st, d) \/ Len(st.attempts[d]) > 0

(* ---- the working signal ---- *)
isWorkingQueueOrActive(st) == Len(st.queue) > 0 \/ Cardinality(st.active) > 0

(* inflight > 0 || queue.length > 0 || active.size > 0 *)
isWorking(st) ==
  st.inflight > 0 \/ Len(st.queue) > 0 \/ Cardinality(st.active) > 0

(* C34: isWorking is true in every state in which a domain is in the queue *)
(* or a resolution is running, and false in every state in which the queue *)
(* is empty and no resolution is running.                                  *)
C34_WorkingSignal ==
  isWorking(S) <=> (queue # << >> \/ Running > 0)

(* a resolution runs after clear-cache emptied the queue and the active    *)
(* set: the signal is true by the inflight counter alone                   *)
C34_Witness ==
  /\ Running > 0
  /\ queue = << >>
  /\ active = {}
  /\ isWorking(S)

(* ---- the queue, the in-queue set and the active set ---- *)
(* C33: the in-queue set is the set of the elements of the queue, no       *)
(* domain is in the queue twice, and no domain is both in the queue and    *)
(* active.                                                                 *)
C33_QueueSets ==
  /\ queued = Elems(queue)
  /\ \A i, j \in 1..Len(queue) : queue[i] = queue[j] => i = j
  /\ Elems(queue) \cap active = {}

(* two domains wait in the queue behind MAX_CONCURRENCY active ones, or a  *)
(* domain waits in the queue after clear-cache emptied the active set      *)
(* under the checks that run                                               *)
C33_Witness ==
  /\ queue # << >>
  /\ queued = Elems(queue)
  /\ Running = MAX_CONCURRENCY
  /\ \/ Cardinality(active) = MAX_CONCURRENCY
     \/ active = {}

(* ---- the merge into an existing finding ---- *)
(* The lists the merge is applied to: up to MaxMergeLen entries of         *)
(* different URLs with a ts up to MaxMergeTs, in any order, so one entry   *)
(* more than the caps allow.                                               *)
MaxMergeLen == 3
MaxMergeTs == 2
MergeDomain == "a.test"
MergeEntries == [url : Urls, ts : 1..MaxMergeTs]
MergeLists ==
  {list \in UNION {[1..n -> MergeEntries] : n \in 0..MaxMergeLen} :
     \A i, j \in 1..Len(list) : list[i].url = list[j].url => i = j}

(* a finding of MergeDomain is there with a list of pages *)
InitMerge ==
  /\ clock = 1
  /\ domainStatus = EmptyMap
  /\ availableList = << [domain |-> MergeDomain, method |-> "rdap"] >>
  /\ hasNew = FALSE
  /\ queue = << >>
  /\ queued = {}
  /\ active = {}
  /\ inflight = 0
  /\ inflightByDomain = {}
  /\ lastQueued = EmptyMap
  /\ itemToHost = EmptyMap
  /\ attempts = [d \in AllDomains |-> << >>]
  /\ drainTimers = 0
  /\ contexts = [d \in AllDomains |-> NoContexts]
  /\ \E pages \in MergeLists :
       findingContexts =
         [d \in AllDomains |->
            IF d = MergeDomain THEN [pages |-> pages, requests |-> << >>]
            ELSE NoContexts]
  /\ sharedRefs = NoSharedRefs
  /\ hostSeen = {}
  /\ dirty = {}
  /\ persistTimers = 0
  /\ persistTimer = FALSE
  /\ persistScheduled = FALSE
  /\ persistInFlight = FALSE
  /\ persistPending = FALSE
  /\ writes = << >>
  /\ stored = EmptyMap
  /\ initLoading = FALSE
  /\ clearedFindings = {}
  /\ tabTopUrl = EmptyMap
  /\ tabHistory = EmptyMap
  /\ frameHistory = EmptyMap
  /\ seenRequestIds = EmptyMap
  /\ recordTs = << >>
  /\ hostSeenTs = << >>

(* the merge of propagateStatus into the finding that exists, for one of   *)
(* the two lists of the verdict                                            *)
mergeExisting(kind, incoming) ==
  /\ FindingIndex(availableList, MergeDomain) > 0
  /\ findingContexts' =
       [findingContexts EXCEPT
          ![MergeDomain][kind] = mergedFinding(@, incoming, CapOf(kind))]
  /\ UNCHANGED << clock, domainStatus, availableList, hasNew, queue, queued,
                  active, inflight, inflightByDomain, lastQueued, itemToHost,
                  attempts, drainTimers, contexts, sharedRefs >>
  /\ UNCHANGED << persistVars, restVars >>

NextMerge ==
  \E kind \in Kinds : \E incoming \in MergeLists : mergeExisting(kind, incoming)

SpecMerge == InitMerge /\ [][NextMerge]_vars

(* the URLs of a list, each with its ts *)
EntrySet(list) == {<< list[i].url, list[i].ts >> : i \in 1..Len(list)}

(* C35: merging the lists of a verdict into a finding a second time leaves *)
(* the URLs of the finding and the ts of each as the first merge left      *)
(* them, for lists within the cap and for lists over it.                   *)
C35_MergeIdempotent ==
  \A kind \in Kinds : \A incoming \in MergeLists :
    LET once == mergedFinding(findingContexts[MergeDomain][kind], incoming,
                              CapOf(kind))
        twice == mergedFinding(once, incoming, CapOf(kind))
    IN /\ EntrySet(twice) = EntrySet(once)
       /\ twice = once

(* the list of the finding and the list merged in are both over the cap    *)
(* and share a URL; the merge changes the finding, and the second merge    *)
(* changes nothing                                                         *)
C35_Witness ==
  \E incoming \in MergeLists :
    LET existing == findingContexts[MergeDomain].pages
        once == mergedFinding(existing, incoming, MAX_PAGES_PER_DOMAIN)
    IN /\ Len(existing) > MAX_PAGES_PER_DOMAIN
       /\ Len(incoming) > MAX_PAGES_PER_DOMAIN
       /\ UrlsOf(existing) \cap UrlsOf(incoming) # {}
       /\ EntrySet(once) # EntrySet(existing)
       /\ UrlsOf(once) # UrlsOf(sliceTo(existing, MAX_PAGES_PER_DOMAIN))
       /\ mergedFinding(once, incoming, MAX_PAGES_PER_DOMAIN) = once

(* ---- the order of the dispatches ---- *)
(* Four domains for MAX_CONCURRENCY slots, so that two domains wait in the *)
(* queue at once; the registry answers 200.                                *)
FifoDomains == KnownDomains

NextFifo ==
  \/ \E d \in FifoDomains : onBeforeRequest(d)
  \/ \E d \in FifoDomains : \E i \in 1..Len(attempts[d]) :
       RdapAnswers(d, i, Http200)
  \/ DrainTimerFires
  \/ clearCache

SpecFifo == Init /\ [][NextFifo]_vars

(* the place of d in the queue, 0 when it is not there *)
QueueIndex(q, d) ==
  IF d \in Elems(q) THEN CHOOSE i \in 1..Len(q) : q[i] = d ELSE 0

(* One step: a domain that leaves the queue is dispatched, unless the step *)
(* is clear-cache; when a domain is dispatched, every domain that was      *)
(* ahead of it in the queue has left the queue, and a domain dispatched    *)
(* without having waited finds the queue empty; the domains that stay keep *)
(* their order, and a domain admitted is behind them.                      *)
FifoStep ==
  LET started == active' \ active
      left == Elems(queue) \ Elems(queue')
      stay == Elems(queue) \cap Elems(queue')
      cleared == queue' = << >> /\ active' = {} /\ lastQueued' = EmptyMap
  IN /\ ~cleared => left \subseteq started
     /\ \A d \in started :
          IF d \in Elems(queue)
          THEN \A e \in Elems(queue) :
                 QueueIndex(queue, e) < QueueIndex(queue, d)
                   => e \in left /\ e \in started
          ELSE Elems(queue) = {}
     /\ \A d, e \in stay :
          QueueIndex(queue, d) < QueueIndex(queue, e)
            => QueueIndex(queue', d) < QueueIndex(queue', e)
     /\ \A d \in stay : \A e \in Elems(queue') \ Elems(queue) :
          QueueIndex(queue', d) < QueueIndex(queue', e)

(* C36: the domains are dispatched in the order of their admission: every  *)
(* step takes the domains it dispatches from the head of the queue and     *)
(* puts the domains it admits at its end; clear-cache alone removes a      *)
(* domain from the queue without a dispatch.                               *)
C36_FifoDispatch == [][FifoStep]_vars

(* two domains wait in the queue behind MAX_CONCURRENCY running checks;    *)
(* the end of a check dispatches the first of them and leaves the second   *)
C36_Witness ==
  /\ Len(queue) = 2
  /\ inflight = MAX_CONCURRENCY
  /\ \E d \in active : Len(attempts[d]) = 1
       /\ LET st == checkRegistrableAfterRdap(S, d, 1, Http200)
          IN /\ queue[1] \in st.active
             /\ st.queue = << queue[2] >>

(* ---- work conservation ---- *)
(* C37: between two handlers a queue that is not empty means that inflight *)
(* is MAX_CONCURRENCY: no domain waits while a slot is free.               *)
C37_WorkConserved ==
  queue # << >> => inflight = MAX_CONCURRENCY

(* two domains wait behind MAX_CONCURRENCY checks; when one of the checks  *)
(* ends, the first of the two is dispatched in the same turn and the       *)
(* second still waits with every slot taken                                *)
C37_Witness ==
  /\ Len(queue) = 2
  /\ inflight = MAX_CONCURRENCY
  /\ \E d \in active : Len(attempts[d]) = 1
       /\ LET st == checkRegistrableAfterRdap(S, d, 1, Http200)
          IN /\ st.queue # << >>
             /\ st.inflight = MAX_CONCURRENCY
             /\ d \notin st.active

(* ---- the checks that clear-cache finds running ---- *)
(* clear-cache was processed under running checks and no request has come  *)
(* since: the cache is empty, nothing is active or queued, a check runs    *)
ClearedUnderChecks ==
  /\ domainStatus = EmptyMap
  /\ active = {}
  /\ queue = << >>
  /\ \E d \in AllDomains : Len(attempts[d]) > 0

(* C38: when a check that was dispatched before clear-cache gets its       *)
(* answer after it, the cache stays empty and no finding is added.         *)
C38_ClearedStaysEmpty ==
  ClearedUnderChecks =>
    \A d \in AllDomains : \A i \in 1..Len(attempts[d]) :
      \A resp \in HttpResponses :
        attempts[d][i].pc = "rdap" =>
          LET st == checkRegistrableAfterRdap(S, d, i, resp)
          IN /\ st.domainStatus = EmptyMap
             /\ st.availableList = availableList

(* ---- the active set and the inflight counter ---- *)
(* C39: the active set is the set of the domains that have a dispatched    *)
(* check that has not finished, its size is the inflight counter, and the  *)
(* counter is not negative.                                                *)
C39_ActiveIsRunning ==
  /\ active = {d \in AllDomains : Len(attempts[d]) > 0}
  /\ Cardinality(active) = inflight
  /\ inflight >= 0

(* ---- the timers of persistence ---- *)
(* C40: at most one setTimeout(triggerPersist) is pending at any time,     *)
(* whatever the order of the persistSoon calls, the timers that fire and   *)
(* the writes that complete.                                               *)
C40_OnePersistTimer ==
  persistTimers <= 1
====
